---- MODULE Spec2Model ----
(***************************************************************************)
(* Model of the aggregation core of analysis.py (class Analysis):          *)
(* find_values_with_video_id, pedestrian_crossing, time_to_cross,          *)
(* crossing_event_wt_traffic_equipment,                                    *)
(* nomalised_crossing_wth_traffic_equipment, calculate_speed_of_crossing.  *)
(*                                                                         *)
(* Conventions.                                                            *)
(*  - A detection table (pandas DataFrame read from one csv) is a sequence *)
(*    of rows [YOLO_id, Unique_Id, X_center, Height]; the row index is the *)
(*    position in the sequence (RangeIndex of read_csv).                   *)
(*  - X_center and Height are the csv's [0,1]-normalised floats, held in   *)
(*    hundredths (X_center = 45 is 0.45).                                  *)
(*  - Every other float is an exact rational <<numerator, denominator>>    *)
(*    with a positive denominator, reduced to lowest terms.                *)
(*  - A Python str is a sequence of tokens; the token "_" is the separator *)
(*    character, so that rsplit("_", 1) and f'{a}_{b}' are computed.       *)
(*  - The dict time_to_cross returns is a sequence of <<id, seconds>>     *)
(*    pairs in insertion order; a per-city dict is a function on its keys. *)
(***************************************************************************)
EXTENDS Integers, Sequences, FiniteSets, TLC

VARIABLES
    pc,            \* position of the modelled call
    df_mapping,    \* the mapping table (mapping.csv)
    key,           \* loop variable: name of the segment being processed
    dataframe,     \* loop variable: detection table of that segment
    min_x,         \* pedestrian_crossing argument
    max_x,         \* pedestrian_crossing argument
    person_id,     \* pedestrian_crossing argument
    crossed,       \* pedestrian_crossing result <<count, ids>>
    data,          \* time_to_cross result for the segment (dict id -> seconds)
    raised,        \* TRUE once the modelled call has raised an exception
    done,          \* names of the segments the running loop has iterated over
    seen,          \* log of the segments iterated over: what each one held
    counter_1,     \* crossing_event_wt_traffic_equipment: events with equipment
    counter_2,     \* crossing_event_wt_traffic_equipment: events without
    time_,         \* crossing_event_wt_traffic_equipment: cumulative duration
    population_,   \* crossing_event_wt_traffic_equipment: population
    var_exist,     \* nomalised_crossing_wth_traffic_equipment: rate with
    var_nt_exist,  \* nomalised_crossing_wth_traffic_equipment: rate without
    speed_dict,    \* calculate_speed_of_crossing: speeds per city
    main_count,    \* the module-level name count: the script's last pedestrian_crossing count
    pos,           \* number of segments of dfs the running function has iterated
    info,          \* traffic_signs: instruments per minute per city
    duration_,     \* traffic_signs: the divisor kept per city
    time_dict,     \* time_to_start_cross: latencies per city
    final,         \* pedestrian_cross_per_city: crossing counts per city
    avg_speed,     \* avg_speed_of_crossing: mean speed per city
    avg_time,      \* avg_time_to_start_cross: mean latency per city
    pickle_file,   \* the file analysis_results.pkl: <<>> while it does not exist
    main,          \* the module-level names of the script that the snapshot holds
    dfs,           \* the script's dfs: the csv files as a sequence of [name, value]
    log,           \* the operations of the current run of the script, in order
    shown,         \* what each presentation function of the current run read
    run,           \* number of the current run of the script
    before_save,   \* the module-level names as they were when the snapshot was written
    final_dict,    \* plot_crossing_without_traffic_light: counts per city and state
    lookup         \* what a call of find_values_with_video_id on its own returned

\* The variables of one iteration of the script's loop over the csv files.
segment == <<key, dataframe, min_x, max_x, person_id, crossed, data>>

\* The per-city mappings.
aggregates == <<counter_1, counter_2, time_, population_, var_exist, var_nt_exist, speed_dict>>

\* The state of traffic_signs and the module-level name it reads.
signs == <<main_count, pos, info, duration_>>

\* The state of the functions that are modelled after calculate_speed_of_crossing.
\* The means of the per-event lists.
averages == <<avg_speed, avg_time>>

\* The state of a run of the script.
script == <<pickle_file, main, dfs, log, shown, run, before_save>>

others == <<signs, time_dict, final, averages, script, final_dict, lookup>>

vars == <<pc, df_mapping, segment, raised, done, seen, aggregates, others>>

\* ------------------------------------------------------------------ bounds

\* Longest detection table drawn by enumeration for pedestrian_crossing and
\* time_to_cross.
MaxRows == 3

\* Longest detection table drawn by enumeration for the per-city mappings.
MaxSceneRows == 4

\* Most segments one call of a per-city aggregation iterates over.
MaxSegs == 2

\* Most strides of 10 rows a track drawn for time_to_start_cross has.
MaxStrides == 6

\* Most runs of the script in a row.
MaxRuns == 2

\* Most rows of a mapping table drawn for the lookup on its own.
MaxMapRows == 2

\* ------------------------------------------------------------- primitives

\* Python None.
None == [none |-> TRUE]

RECURSIVE SumSeq(_)
\* sum() of a sequence of integers.
SumSeq(s) == IF s = <<>> THEN 0 ELSE Head(s) + SumSeq(Tail(s))

\* Series.min() / Series.max() of a non-empty sequence of integers.
SeqMin(s) == CHOOSE v \in {s[i] : i \in DOMAIN s} : \A i \in DOMAIN s : v <= s[i]

SeqMax(s) == CHOOSE v \in {s[i] : i \in DOMAIN s} : \A i \in DOMAIN s : v >= s[i]

\* Position of the first element of s that satisfies s[i] = v (index[0]).
FirstIndex(s, v) == CHOOSE i \in DOMAIN s : s[i] = v /\ \A j \in 1..(i - 1) : s[j] # v

RECURSIVE Unique(_)
\* Series.unique(): the distinct values in order of first appearance.
Unique(s) ==
    IF s = <<>> THEN <<>>
    ELSE LET h == Head(s)
         IN  <<h>> \o Unique(SelectSeq(Tail(s), LAMBDA v : v # h))

\* Column of a table.
Column(df, c) == [i \in DOMAIN df |-> df[i][c]]

\* --------------------------------------------------------- mapping lookup

\* The numerals that occur as start offsets in segment names, with int().
IntOf(tok) ==
    CASE tok = "0" -> 0
      [] tok = "30" -> 30
      [] tok = "60" -> 60

RECURSIVE LastSep(_)
\* Position of the last "_" of a string (0 when it has none).
LastSep(s) ==
    IF s = <<>> THEN 0
    ELSE IF s[Len(s)] = "_" THEN Len(s)
    ELSE LastSep(SubSeq(s, 1, Len(s) - 1))

\* key.rsplit("_", 1) of a string holding a separator: <<id, start_>>.
RSplit(s) ==
    LET p == LastSep(s)
    IN  <<SubSeq(s, 1, p - 1), SubSeq(s, p + 1, Len(s))>>

\* zip(video_ids, start_times, end_times, time_of_day, fps_list) stops at the
\* shortest of the five lists.
ZipLen(row) ==
    LET lens == {Len(row.videos), Len(row.start_time), Len(row.end_time),
                 Len(row.time_of_day), Len(row.fps_list)}
    IN  CHOOSE n \in lens : \A m \in lens : n <= m

\* StateOf without the default: the NaN is formatted as it is.
StateOf_asRead(row) == IF row.state = <<>> THEN <<"nan">> ELSE row.state

\* state = row['state'] if not pd.isna(row['state']) else "unknown"
StateOf(row) == IF row.state = <<>> THEN <<"unknown">> ELSE row.state

RECURSIVE FindInStarts_firstEnd(_, _, _, _)
\* FindInStarts that returns end[0] and time_of_day_[0] whatever the position
\* of the matched start offset.
FindInStarts_firstEnd(row, i, c, start_) ==
    IF c > Len(row.start_time[i]) THEN None
    ELSE IF IntOf(start_) = row.start_time[i][c]
         THEN [video |-> row.videos[i],
               start |-> row.start_time[i][c],
               end |-> row.end_time[i][1],
               time_of_day |-> row.time_of_day[i][1],
               city |-> row.city,
               state |-> StateOf(row),
               country |-> row.country,
               population |-> row.population_city,
               population_country |-> row.population_country,
               avg_height |-> row.avg_height,
               fps |-> row.fps_list[i]]
         ELSE FindInStarts_firstEnd(row, i, c + 1, start_)

RECURSIVE FindInStarts(_, _, _, _)
\* for s in start: ... counter += 1 -- the first list position c whose start
\* offset equals int(start_), for video number i of the row.
FindInStarts(row, i, c, start_) ==
    IF c > Len(row.start_time[i]) THEN None
    ELSE IF IntOf(start_) = row.start_time[i][c]
         THEN [video |-> row.videos[i],
               start |-> row.start_time[i][c],
               end |-> row.end_time[i][c],
               time_of_day |-> row.time_of_day[i][c],
               city |-> row.city,
               state |-> StateOf(row),
               country |-> row.country,
               population |-> row.population_city,
               population_country |-> row.population_country,
               avg_height |-> row.avg_height,
               fps |-> row.fps_list[i]]
         ELSE FindInStarts(row, i, c + 1, start_)

RECURSIVE FindInZip(_, _, _, _)
\* for video, start, end, time_of_day_, fps in zip(...): if video == id: ...
FindInZip(row, i, id, start_) ==
    IF i > ZipLen(row) THEN None
    ELSE LET r == IF row.videos[i] = id THEN FindInStarts(row, i, 1, start_) ELSE None
         IN  IF r # None THEN r ELSE FindInZip(row, i + 1, id, start_)

RECURSIVE FindInRows(_, _, _, _)
\* for index, row in df.iterrows(): ...
FindInRows(df, n, id, start_) ==
    IF n > Len(df) THEN None
    ELSE LET r == FindInZip(df[n], 1, id, start_)
         IN  IF r # None THEN r ELSE FindInRows(df, n + 1, id, start_)

\* Analysis.find_values_with_video_id(df, key): the metadata of the segment
\* named key, or None when no video/start pair of the table matches.
find_values_with_video_id(df, k) ==
    LET parts == RSplit(k)
    IN  FindInRows(df, 1, parts[1], parts[2][1])

\* f'{city}_{state}_{condition}'
AggKey(city, state, condition) ==
    city \o <<"_">> \o state \o <<"_">> \o <<ToString(condition)>>

\* ------------------------------------------------------ pedestrian_crossing

\* The rows of a table whose Unique Id is id (dataframe[dataframe["Unique Id"] == id]).
RowsOfId(df, id) == SelectSeq(df, LAMBDA r : r.Unique_Id = id)

\* GroupCrosses with strict comparisons: a row on a boundary does not count.
GroupCrosses_strict(grp, lo, hi) ==
    /\ \E i \in DOMAIN grp : grp[i].X_center < lo
    /\ \E i \in DOMAIN grp : grp[i].X_center > hi

\* GroupCrosses with "or" for "and": one boundary is enough.
GroupCrosses_either(grp, lo, hi) ==
    \/ \E i \in DOMAIN grp : grp[i].X_center <= lo
    \/ \E i \in DOMAIN grp : grp[i].X_center >= hi

\* lambda x: (x["X-center"] <= min_x).any() and (x["X-center"] >= max_x).any()
GroupCrosses(grp, lo, hi) ==
    /\ \E i \in DOMAIN grp : grp[i].X_center <= lo
    /\ \E i \in DOMAIN grp : grp[i].X_center >= hi

\* Analysis.pedestrian_crossing(dataframe, min_x, max_x, person_id): <<count, ids>>.
pedestrian_crossing(df, lo, hi, pid) ==
    LET crossed_ids == SelectSeq(df, LAMBDA r : r.YOLO_id = pid)
        filtered == SelectSeq(crossed_ids,
                        LAMBDA r : GroupCrosses(RowsOfId(crossed_ids, r.Unique_Id), lo, hi))
        uniq == Unique(Column(filtered, "Unique_Id"))
    IN  <<Len(uniq), uniq>>

\* ---------------------------------------------------------------- rationals

RECURSIVE GCD(_, _)
\* Greatest common divisor of two naturals, not both 0.
GCD(a, b) == IF b = 0 THEN a ELSE GCD(b, a % b)

Abs(n) == IF n < 0 THEN -n ELSE n

\* The rational n/d (d # 0) in lowest terms with a positive denominator.
Rat(n, d) ==
    LET g == GCD(Abs(n), Abs(d))
        sgn == IF d < 0 THEN -1 ELSE 1
    IN  <<sgn * (n \div g), sgn * (d \div g)>>

\* a / b, a - b and a > b on rationals.
RDiv(a, b) == Rat(a[1] * b[2], a[2] * b[1])

RSub(a, b) == Rat(a[1] * b[2] - b[1] * a[2], a[2] * b[2])

RGreater(a, b) == a[1] * b[2] > b[1] * a[2]

\* ------------------------------------------------------------ time_to_cross

RECURSIVE Walk_skipStart(_, _, _, _, _, _)
\* Walk that raises the flag after the count: the starting row is not counted.
Walk_skipStart(xs, i, flag, count, from_, to_) ==
    IF i > Len(xs) THEN 0
    ELSE LET f == IF xs[i] = from_ THEN 1 ELSE flag
             c == IF f = 1 THEN count + 1 ELSE count
         IN  IF f = 1 /\ xs[i] = to_ THEN (IF from_ = to_ THEN c ELSE c - 1)
             ELSE Walk_skipStart(xs, i + 1, f, c, from_, to_)

RECURSIVE Walk_skipEnd(_, _, _, _, _, _)
\* Walk that tests for the end before it counts: the last row is not counted.
Walk_skipEnd(xs, i, flag, count, from_, to_) ==
    IF i > Len(xs) THEN 0
    ELSE LET f == IF xs[i] = from_ THEN 1 ELSE flag
         IN  IF f = 1 /\ xs[i] = to_ THEN (IF count = 0 THEN 1 ELSE count)
             ELSE Walk_skipEnd(xs, i + 1, f, IF f = 1 THEN count + 1 ELSE count, from_, to_)

RECURSIVE Walk(_, _, _, _, _, _)
\* for value in sorted_grp['X-center']: if value == from_: flag = 1;
\* if flag == 1: count += 1; if value == to_: var[id] = count/fps; break.
\* The count at the break, or 0 when the loop ends without reaching it.
Walk(xs, i, flag, count, from_, to_) ==
    IF i > Len(xs) THEN 0
    ELSE LET f == IF xs[i] = from_ THEN 1 ELSE flag
             c == IF f = 1 THEN count + 1 ELSE count
         IN  IF f = 1 /\ xs[i] = to_ THEN c
             ELSE Walk(xs, i + 1, f, c, from_, to_)

\* CrossCount that always walks from the minimum to the maximum, whichever
\* comes first.
CrossCount_minFirst(df, id) ==
    LET xs == Column(RowsOfId(df, id), "X_center")
    IN  Walk(xs, 1, 0, 0, SeqMin(xs), SeqMax(xs))

\* The body of "for id in ids": the row count of one identity.
CrossCount(df, id) ==
    LET xs == Column(RowsOfId(df, id), "X_center")
        x_min == SeqMin(xs)
        x_max == SeqMax(xs)
        x_min_index == FirstIndex(xs, x_min)
        x_max_index == FirstIndex(xs, x_max)
    IN  IF x_min_index < x_max_index
        THEN Walk(xs, 1, 0, 0, x_min, x_max)
        ELSE Walk(xs, 1, 0, 0, x_max, x_min)

\* Analysis.time_to_cross(dataframe, ids, video_id) against the module-level
\* df_mapping: [raised, var]. fps is bound only when the lookup returns a
\* result, so the first var[id] = count/fps of a segment without one raises
\* UnboundLocalError.
time_to_cross(mapping, df, ids, video_id) ==
    LET result == find_values_with_video_id(mapping, video_id)
        reached == SelectSeq(ids, LAMBDA id : CrossCount(df, id) > 0)
    IN  IF result = None
        THEN [raised |-> reached # <<>>, var |-> <<>>]
        ELSE [raised |-> FALSE,
              var |-> [n \in DOMAIN reached |->
                          <<reached[n], Rat(CrossCount(df, reached[n]), result.fps)>>]]

\* dict lookup and key test on a sequence of <<key, value>> pairs.
HasKey(d, k) == \E n \in DOMAIN d : d[n][1] = k

Get(d, k) == d[CHOOSE n \in DOMAIN d : d[n][1] = k][2]

\* -------------------------------------------------------------------- inputs

\* mapping.csv: one row per city; the per-video lists are those that
\* ast.literal_eval and the split of row["videos"] yield. An empty state is
\* the csv's empty field, which pandas reads as NaN.
MappingTable ==
    << [city |-> <<"Delft">>, state |-> <<>>, country |-> "Netherlands", ISO_country |-> "NLD",
        videos |-> << <<"a">>, <<"b", "_", "c">>, <<"e">> >>,
        start_time |-> << <<0, 60>>, <<0>>, <<0>> >>,
        end_time |-> << <<30, 90>>, <<30>>, <<60>> >>,
        time_of_day |-> << <<0, 0>>, <<1>>, <<0>> >>,
        fps_list |-> <<10, 30, 10>>,
        population_city |-> 1000, population_country |-> 17000,
        avg_height |-> 120],
       [city |-> <<"Austin">>, state |-> <<"Texas">>, country |-> "USA", ISO_country |-> "USA",
        videos |-> << <<"d">> >>,
        start_time |-> << <<30>> >>,
        end_time |-> << <<60>> >>,
        time_of_day |-> << <<0>> >>,
        fps_list |-> <<10>>,
        population_city |-> 2000, population_country |-> 330000,
        avg_height |-> 180] >>

\* Names of csv files (read_csv_files): four segments of the mapping, one
\* whose start offset the mapping does not list, one whose video it lacks.
SegmentNames ==
    { <<"a", "_", "0">>, <<"a", "_", "60">>, <<"b", "_", "c", "_", "0">>,
      <<"d", "_", "30">>, <<"d", "_", "0">>, <<"z", "_", "0">> }

\* All tables of at most n rows over a set of rows.
Tables(rows, n) == UNION {[1..m -> rows] : m \in 0..n}

\* Rows of the enumerated tables: persons and cars, two identities, left of,
\* inside and right of the 0.45-0.55 band.
BandRows == [YOLO_id : {0, 2}, Unique_Id : {1, 2}, X_center : {40, 50, 60}, Height : {100}]

\* Thresholds tried on pedestrian_crossing, in either order and equal.
Thresholds == {45, 50, 55}

\* A 20-row track of one person rising from 0.10 to 0.90: steps of 0.04, two
\* of them (after rows j and k) widened by 0.02 each.
MonoTrack(j, k) ==
    [i \in 1..20 |->
        [YOLO_id |-> 0, Unique_Id |-> 1, Height |-> 100,
         X_center |-> 10 + 4 * (i - 1) + (IF i > j THEN 2 ELSE 0) + (IF i > k THEN 2 ELSE 0)]]

MonoTracks == {MonoTrack(j, k) : j \in 1..19, k \in 1..19}

\* ------------------------------------------------------------------ actions

\* A direct call count, ids = pedestrian_crossing(dataframe, min_x, max_x, person_id).
PedestrianCrossingCall ==
    /\ pc = "start"
    /\ \E df \in Tables(BandRows, MaxRows), lo \in Thresholds, hi \in Thresholds, pid \in {0, 2} :
          /\ dataframe' = df
          /\ min_x' = lo
          /\ max_x' = hi
          /\ person_id' = pid
          /\ crossed' = pedestrian_crossing(df, lo, hi, pid)
    /\ pc' = "crossed"
    /\ UNCHANGED <<df_mapping, key, data, raised, done, seen, aggregates, others>>

\* The two calls of one iteration of "for key, value in dfs.items()":
\* pedestrian_crossing, then time_to_cross on its ids.
Analyse(k, df, lo, hi) ==
    LET c == pedestrian_crossing(df, lo, hi, 0)
        t == time_to_cross(df_mapping, df, c[2], k)
    IN  /\ key' = k
        /\ dataframe' = df
        /\ min_x' = lo
        /\ max_x' = hi
        /\ person_id' = 0
        /\ crossed' = c
        /\ data' = t.var
        /\ raised' = t.raised
        /\ pc' = IF t.raised THEN "raised" ELSE "analysed"
        /\ UNCHANGED <<df_mapping, done, seen, aggregates, others>>

\* One segment analysed with the thresholds of the script (0.45, 0.55).
AnalyseSegment ==
    /\ pc = "start"
    /\ \E k \in SegmentNames, df \in Tables(BandRows, MaxRows) : Analyse(k, df, 45, 55)

\* One segment holding a rising 20-row track, analysed with 0.2 and 0.8.
AnalyseRisingTrack ==
    /\ pc = "start"
    /\ \E k \in SegmentNames, df \in MonoTracks : Analyse(k, df, 20, 80)

\* The names pickle.dump lists, in its order (lines 2851-2855).
DumpOrder ==
    << "data", "person_counter", "bicycle_counter", "car_counter", "motorcycle_counter",
       "bus_counter", "truck_counter", "cellphone_counter", "traffic_light_counter",
       "stop_sign_counter", "pedestrian_cross_city", "pedestrian_crossing_count",
       "with_trf_light", "without_trf_light", "with_trf_light_norm",
       "without_trf_light_norm", "traffic_sign_city", "speed_values", "time_values",
       "avg_time", "avg_speed" >>

\* The order of computation (speed before time) in place of the order of the dump.
LoadOrder_swapped ==
    << "data", "person_counter", "bicycle_counter", "car_counter", "motorcycle_counter",
       "bus_counter", "truck_counter", "cellphone_counter", "traffic_light_counter",
       "stop_sign_counter", "pedestrian_cross_city", "pedestrian_crossing_count",
       "with_trf_light", "without_trf_light", "with_trf_light_norm",
       "without_trf_light_norm", "traffic_sign_city", "speed_values", "time_values",
       "avg_speed", "avg_time" >>

\* The names the tuple of pickle.load is unpacked into, in order (lines 2805-2809).
LoadOrder ==
    << "data", "person_counter", "bicycle_counter", "car_counter", "motorcycle_counter",
       "bus_counter", "truck_counter", "cellphone_counter", "traffic_light_counter",
       "stop_sign_counter", "pedestrian_cross_city", "pedestrian_crossing_count",
       "with_trf_light", "without_trf_light", "with_trf_light_norm",
       "without_trf_light_norm", "traffic_sign_city", "speed_values", "time_values",
       "avg_time", "avg_speed" >>

\* The module-level names when the script reaches line 2802: the two dicts
\* and the nine counters of lines 2792-2794 are bound, the other names are not.
MainAtStart ==
    [f \in {DumpOrder[i] : i \in DOMAIN DumpOrder} |->
        IF f \in {"data", "pedestrian_crossing_count"} THEN <<>>
        ELSE IF f \in {"person_counter", "bicycle_counter", "car_counter",
                       "motorcycle_counter", "bus_counter", "truck_counter",
                       "cellphone_counter", "traffic_light_counter", "stop_sign_counter"}
        THEN 0
        ELSE None]

\* The names of the script before its first statement that depends on the
\* mapping.
Started ==
    /\ pc = "start"
    /\ key = <<>>
    /\ dataframe = <<>>
    /\ min_x = 0
    /\ max_x = 0
    /\ person_id = 0
    /\ crossed = <<0, <<>>>>
    /\ data = <<>>
    /\ raised = FALSE
    /\ done = {}
    /\ seen = <<>>
    /\ counter_1 = <<>>
    /\ counter_2 = <<>>
    /\ time_ = <<>>
    /\ population_ = <<>>
    /\ var_exist = <<>>
    /\ var_nt_exist = <<>>
    /\ speed_dict = <<>>
    /\ main_count = None
    /\ pos = 0
    /\ info = <<>>
    /\ duration_ = <<>>
    /\ time_dict = <<>>
    /\ final = <<>>
    /\ avg_speed = <<>>
    /\ avg_time = <<>>
    /\ pickle_file = <<>>
    /\ main = MainAtStart
    /\ dfs = <<>>
    /\ log = <<>>
    /\ shown = <<>>
    /\ run = 1
    /\ before_save = <<>>
    /\ final_dict = <<>>
    /\ lookup = None

Init ==
    /\ df_mapping = MappingTable
    /\ Started

\* pedestrian_crossing on its own.
NextCross == PedestrianCrossingCall

SpecCross == Init /\ [][NextCross]_vars

\* pedestrian_crossing followed by time_to_cross.
NextTime == AnalyseSegment \/ AnalyseRisingTrack

SpecTime == Init /\ [][NextTime]_vars

\* The identities of class pid that have a row at or left of lo and a row at
\* or right of hi, rows of other classes not counted.
CrossingSet(df, lo, hi, pid) ==
    {T \in {df[i].Unique_Id : i \in DOMAIN df} :
        /\ \E i \in DOMAIN df :
              df[i].YOLO_id = pid /\ df[i].Unique_Id = T /\ df[i].X_center <= lo
        /\ \E i \in DOMAIN df :
              df[i].YOLO_id = pid /\ df[i].Unique_Id = T /\ df[i].X_center >= hi}

\* ------------------------------------ crossing_event_wt_traffic_equipment

\* Rows of the tables enumerated for the equipment counts: two persons left
\* and right of the band, a traffic light (9) and a stop sign (11).
SceneRows ==
    [YOLO_id : {0}, Unique_Id : {1, 2}, X_center : {40, 60}, Height : {100}]
    \cup [YOLO_id : {9, 11}, Unique_Id : {3}, X_center : {50}, Height : {100}]

\* A table of n persons who all cross left to right (identity i at 0.40, then
\* at 0.60), with a traffic light detected in between when lit.
CrowdTable(n, lit) ==
    [i \in 1..n |-> [YOLO_id |-> 0, Unique_Id |-> i, X_center |-> 40, Height |-> 100]]
    \o (IF lit THEN <<[YOLO_id |-> 9, Unique_Id |-> 9, X_center |-> 50, Height |-> 100]>>
        ELSE <<>>)
    \o [i \in 1..n |-> [YOLO_id |-> 0, Unique_Id |-> i, X_center |-> 60, Height |-> 100]]

\* The detection tables of the segments of an aggregation.
SceneTables ==
    Tables(SceneRows, MaxSceneRows) \cup {CrowdTable(n, lit) : n \in 1..4, lit \in BOOLEAN}

\* The names of the segments of an aggregation: two of one city and time of
\* day, one of another city, one without a mapping match.
SceneNames == { <<"a", "_", "0">>, <<"a", "_", "60">>, <<"d", "_", "30">>, <<"z", "_", "0">> }

\* The first scan over the rows of the track alone, not over every row in
\* its index range.
yolo_id_9_exists_ownRows(value, id) ==
    LET unique_id_indices == {i \in DOMAIN value : value[i].Unique_Id = id}
    IN  \E i \in unique_id_indices : value[i].YOLO_id \in {9, 11}

\* yolo_id_9_exists = any(value.loc[first_occurrence:last_occurrence, 'YOLO_id'].isin([9, 11]))
yolo_id_9_exists(value, id) ==
    LET unique_id_indices == {i \in DOMAIN value : value[i].Unique_Id = id}
        first_occurrence == CHOOSE i \in unique_id_indices : \A j \in unique_id_indices : i <= j
        last_occurrence == CHOOSE i \in unique_id_indices : \A j \in unique_id_indices : i >= j
    IN  \E i \in first_occurrence..last_occurrence : value[i].YOLO_id \in {9, 11}

\* The second scan written as isin([9]): a stop sign alone is not seen.
yolo_id_9_not_exists_lightOnly(value, id) ==
    LET unique_id_indices == {i \in DOMAIN value : value[i].Unique_Id = id}
        first_occurrence == CHOOSE i \in unique_id_indices : \A j \in unique_id_indices : i <= j
        last_occurrence == CHOOSE i \in unique_id_indices : \A j \in unique_id_indices : i >= j
    IN  ~ \E i \in first_occurrence..last_occurrence : value[i].YOLO_id \in {9}

\* yolo_id_9_not_exists = not any(value.loc[first_occurrence:last_occurrence, 'YOLO_id'].isin([9, 11]))
yolo_id_9_not_exists(value, id) ==
    LET unique_id_indices == {i \in DOMAIN value : value[i].Unique_Id = id}
        first_occurrence == CHOOSE i \in unique_id_indices : \A j \in unique_id_indices : i <= j
        last_occurrence == CHOOSE i \in unique_id_indices : \A j \in unique_id_indices : i >= j
    IN  ~ \E i \in first_occurrence..last_occurrence : value[i].YOLO_id \in {9, 11}

\* for id, time in df.items(): ... counter_exists += 1 / counter_nt_exists += 1
EventCounters(value, df) ==
    [counter_exists |-> Len(SelectSeq(df, LAMBDA item : yolo_id_9_exists(value, item[1]))),
     counter_nt_exists |-> Len(SelectSeq(df, LAMBDA item : yolo_id_9_not_exists(value, item[1])))]

\* dict.get(key, 0) and dict[key] = v on a per-city dict.
GetOr0(d, k) == IF k \in DOMAIN d THEN d[k] ELSE 0

Put(d, k, v) == [x \in DOMAIN d \cup {k} |-> IF x = k THEN v ELSE d[x]]

\* What the script's loop (lines 2816-2826) holds for a segment named k with
\* table value when the aggregations start: count and ids of
\* pedestrian_crossing(value, 0.45, 0.55, 0) and data[k] of time_to_cross.
Analysed(mapping, k, value) ==
    LET c == pedestrian_crossing(value, 45, 55, 0)
        t == time_to_cross(mapping, value, c[2], k)
    IN  [name |-> k, value |-> value, count |-> c[1], ids |-> c[2],
         raised |-> t.raised, data |-> t.var]

\* The number of crossing events of a table that have a row of class 9 or 11
\* between the first and the last row of their track.
EventsWithEquipment(value) ==
    Cardinality({T \in CrossingSet(value, 45, 55, 0) :
        \E i \in DOMAIN value, j \in DOMAIN value, m \in DOMAIN value :
            /\ value[i].Unique_Id = T
            /\ value[j].Unique_Id = T
            /\ i <= m
            /\ m <= j
            /\ value[m].YOLO_id \in {9, 11}})

\* One segment as crossing_event_wt_traffic_equipment meets it: its name, its
\* event counters (lines 907-921), and for the log its number of crossing
\* events and how many of them have equipment in range.
EquipItem(mapping, k, value) ==
    LET a == Analysed(mapping, k, value)
        c == EventCounters(value, a.data)
    IN  [name |-> k, raised |-> a.raised,
         counter_exists |-> c.counter_exists,
         counter_nt_exists |-> c.counter_nt_exists,
         events |-> a.count,
         with |-> EventsWithEquipment(value)]

\* The segments an aggregation can meet: the script reaches the aggregations
\* only when no time_to_cross has raised.
EquipItems ==
    {it \in {EquipItem(MappingTable, k, value) : k \in SceneNames, value \in SceneTables} :
        ~it.raised}

\* The iteration with the counters stored only for a segment that has an
\* event of the kind, as if lines 923-926 stood inside the loop over the
\* identities.
EquipIterate_storeWhenCounted ==
    /\ pc \in {"start", "equip"}
    /\ Cardinality(done) < MaxSegs
    /\ \E it \in EquipItems :
          LET result == find_values_with_video_id(df_mapping, it.name)
              k == AggKey(result.city, result.state, result.time_of_day)
              duration == result.end - result.start
          IN  /\ it.name \notin done
              /\ done' = done \cup {it.name}
              /\ key' = it.name
              /\ seen' = Append(seen, [name |-> it.name, events |-> it.events, with |-> it.with])
              /\ IF result # None
                 THEN /\ time_' = Put(time_, k, GetOr0(time_, k) + duration)
                      /\ counter_1' = IF it.counter_exists = 0 THEN counter_1
                                      ELSE Put(counter_1, k,
                                               GetOr0(counter_1, k) + it.counter_exists)
                      /\ counter_2' = IF it.counter_nt_exists = 0 THEN counter_2
                                      ELSE Put(counter_2, k,
                                               GetOr0(counter_2, k) + it.counter_nt_exists)
                      /\ population_' = Put(population_, k, result.population)
                 ELSE UNCHANGED <<time_, counter_1, counter_2, population_>>
    /\ pc' = "equip"
    /\ UNCHANGED <<df_mapping, dataframe, min_x, max_x, person_id, crossed, data, raised,
                   var_exist, var_nt_exist, speed_dict, others>>

\* One iteration of "for key, df in data.items()" of
\* crossing_event_wt_traffic_equipment (lines 882-928).
EquipIterate ==
    /\ pc \in {"start", "equip"}
    /\ Cardinality(done) < MaxSegs
    /\ \E it \in EquipItems :
          LET result == find_values_with_video_id(df_mapping, it.name)
              k == AggKey(result.city, result.state, result.time_of_day)
              duration == result.end - result.start
          IN  /\ it.name \notin done
              /\ done' = done \cup {it.name}
              /\ key' = it.name
              /\ seen' = Append(seen, [name |-> it.name, events |-> it.events, with |-> it.with])
              /\ IF result # None
                 THEN /\ time_' = Put(time_, k, GetOr0(time_, k) + duration)
                      /\ counter_1' = Put(counter_1, k, GetOr0(counter_1, k) + it.counter_exists)
                      /\ counter_2' = Put(counter_2, k, GetOr0(counter_2, k) + it.counter_nt_exists)
                      /\ population_' = Put(population_, k, result.population)
                 ELSE UNCHANGED <<time_, counter_1, counter_2, population_>>
    /\ pc' = "equip"
    /\ UNCHANGED <<df_mapping, dataframe, min_x, max_x, person_id, crossed, data, raised,
                   var_exist, var_nt_exist, speed_dict, others>>

\* Normalise that divides by the duration of the last segment of the city
\* only, as if time_ were overwritten and not accumulated.
Normalise_lastDuration ==
    /\ pc = "equip"
    /\ LET last(k) ==
              LET n == CHOOSE n \in DOMAIN seen :
                          /\ find_values_with_video_id(df_mapping, seen[n].name) # None
                          /\ LET r == find_values_with_video_id(df_mapping, seen[n].name)
                             IN  AggKey(r.city, r.state, r.time_of_day) = k
                          /\ \A m \in DOMAIN seen : m > n =>
                                \/ find_values_with_video_id(df_mapping, seen[m].name) = None
                                \/ LET r == find_values_with_video_id(df_mapping, seen[m].name)
                                   IN  AggKey(r.city, r.state, r.time_of_day) # k
                  r == find_values_with_video_id(df_mapping, seen[n].name)
              IN  r.end - r.start
       IN  /\ var_exist' = [k \in DOMAIN time_ |->
                              RDiv(Rat(counter_1[k] * 60, last(k)), Rat(population_[k], 1))]
           /\ var_nt_exist' = [k \in DOMAIN time_ |->
                              RDiv(Rat(counter_2[k] * 60, last(k)), Rat(population_[k], 1))]
    /\ pc' = "normalised"
    /\ UNCHANGED <<df_mapping, segment, raised, done, seen, counter_1, counter_2, time_,
                   population_, speed_dict, others>>

\* The loop of nomalised_crossing_wth_traffic_equipment over the mappings its
\* call of crossing_event_wt_traffic_equipment returned (lines 937-941).
Normalise ==
    /\ pc = "equip"
    /\ var_exist' = [k \in DOMAIN time_ |->
                        RDiv(Rat(counter_1[k] * 60, time_[k]), Rat(population_[k], 1))]
    /\ var_nt_exist' = [k \in DOMAIN time_ |->
                        RDiv(Rat(counter_2[k] * 60, time_[k]), Rat(population_[k], 1))]
    /\ pc' = "normalised"
    /\ UNCHANGED <<df_mapping, segment, raised, done, seen, counter_1, counter_2, time_,
                   population_, speed_dict, others>>

NextEquip == EquipIterate \/ Normalise

SpecEquip == Init /\ [][NextEquip]_vars

RECURSIVE SumOver(_, _)
\* The sum of f[n] over a finite set of indices.
SumOver(f, S) ==
    IF S = {} THEN 0
    ELSE LET n == CHOOSE n \in S : TRUE
         IN  f[n] + SumOver(f, S \ {n})

\* The rows from the first occurrence of the extreme that comes first through
\* the first occurrence of the other extreme, both included.
ExtremeSpan(df, id) ==
    LET xs == Column(RowsOfId(df, id), "X_center")
        iMin == FirstIndex(xs, SeqMin(xs))
        iMax == FirstIndex(xs, SeqMax(xs))
    IN  Abs(iMax - iMin) + 1

\* ---------------------------------------------- calculate_speed_of_crossing

\* Rows of the tables enumerated for the speeds: two persons left and right of
\* the band, small and tall boxes, and a car that shares identity 1.
SpeedRows ==
    [YOLO_id : {0}, Unique_Id : {1}, X_center : {40, 60}, Height : {50, 100}]
    \cup [YOLO_id : {0}, Unique_Id : {2}, X_center : {40, 60}, Height : {100}]
    \cup [YOLO_id : {2}, Unique_Id : {1}, X_center : {50}, Height : {50}]

SpeedTables == Tables(SpeedRows, MaxSceneRows)

\* if speed_ >= 1.2: the boundary value is dropped as well.
IsOutlier_inclusive(speed_) == ~RGreater(<<6, 5>>, speed_)

\* if speed_ > 1.2
IsOutlier(speed_) == RGreater(speed_, <<6, 5>>)

\* SpeedOf with ppm the other way round (avg_height / mean_height).
SpeedOf_inverseScale(value, id, time, avg_height) ==
    LET grouped_with_id == RowsOfId(value, id)
        heights == Column(grouped_with_id, "Height")
        xs == Column(grouped_with_id, "X_center")
        mean_height == Rat(SumSeq(heights), Len(heights) * 100)
        ppm == RDiv(Rat(avg_height, 1), mean_height)
        distance == RDiv(RSub(Rat(SeqMax(xs), 100), Rat(SeqMin(xs), 100)), ppm)
    IN  RDiv(RDiv(distance, time), <<100, 1>>)

\* The body of "for id, time in df.items()" up to speed_ (lines 715-723).
SpeedOf(value, id, time, avg_height) ==
    LET grouped_with_id == RowsOfId(value, id)
        heights == Column(grouped_with_id, "Height")
        xs == Column(grouped_with_id, "X_center")
        mean_height == Rat(SumSeq(heights), Len(heights) * 100)
        min_x_center == Rat(SeqMin(xs), 100)
        max_x_center == Rat(SeqMax(xs), 100)
        ppm == RDiv(mean_height, Rat(avg_height, 1))
        distance == RDiv(RSub(max_x_center, min_x_center), ppm)
    IN  RDiv(RDiv(distance, time), <<100, 1>>)

\* The crossing identities of a table in the order unique() returns them: by
\* their first row of class 0.
RECURSIVE InOrder(_, _)
InOrder(value, S) ==
    IF S = {} THEN <<>>
    ELSE LET first(T) == CHOOSE i \in DOMAIN value :
                            /\ value[i].Unique_Id = T /\ value[i].YOLO_id = 0
                            /\ \A j \in 1..(i - 1) :
                                  ~(value[j].Unique_Id = T /\ value[j].YOLO_id = 0)
             T0 == CHOOSE T \in S : \A U \in S : first(T) <= first(U)
         IN  <<T0>> \o InOrder(value, S \ {T0})

\* What the track of identity T measures: displacement and summed height in
\* hundredths, number of rows, rows between its extremes.
TrackFacts(value, T) ==
    LET rows == {i \in DOMAIN value : value[i].Unique_Id = T}
    IN  [dx |-> (CHOOSE x \in {value[i].X_center : i \in rows} :
                    \A i \in rows : x >= value[i].X_center)
                - (CHOOSE x \in {value[i].X_center : i \in rows} :
                    \A i \in rows : x <= value[i].X_center),
         sumH |-> SumOver([i \in rows |-> value[i].Height], rows),
         rows |-> Cardinality(rows),
         span |-> ExtremeSpan(value, T)]

\* The speed of a crossing event whose track measures e, in a segment with
\* metadata meta: displacement over (mean height / reference height), over
\* the time-to-cross, over 100.
EventSpeed(meta, e) ==
    Rat(e.dx * e.rows * meta.avg_height * meta.fps, e.sumH * e.span * 100)

\* The speeds of the crossing events of a table that are at most 1.2, in the
\* order of the events.
RetainedSpeeds(meta, value) ==
    LET order == InOrder(value, CrossingSet(value, 45, 55, 0))
    IN  SelectSeq([n \in DOMAIN order |-> EventSpeed(meta, TrackFacts(value, order[n]))],
                  LAMBDA v : v[1] * 5 <= 6 * v[2])

\* One segment as calculate_speed_of_crossing meets it: its name, data[key],
\* the speed_ of each entry of data[key]; for the log, the number of its
\* crossing events and their speeds of at most 1.2.
SpeedItem(mapping, k, value) ==
    LET a == Analysed(mapping, k, value)
        result == find_values_with_video_id(mapping, k)
    IN  [name |-> k, raised |-> a.raised, data |-> a.data,
         speeds |-> IF result = None THEN <<>>
                    ELSE [n \in DOMAIN a.data |->
                            SpeedOf(value, a.data[n][1], a.data[n][2], result.avg_height)],
         events |-> a.count,
         retained |-> IF result = None THEN <<>> ELSE RetainedSpeeds(result, value)]

SpeedItems ==
    {it \in {SpeedItem(MappingTable, k, value) : k \in SceneNames, value \in SpeedTables} :
        ~it.raised}

RECURSIVE AppendSpeeds(_, _, _)
\* if speed_ > 1.2: continue; speed_dict[k].append(speed_) or speed_dict[k] = [speed_]
AppendSpeeds(d, k, speeds) ==
    IF speeds = <<>> THEN d
    ELSE LET speed_ == Head(speeds)
             d1 == IF IsOutlier(speed_) THEN d
                   ELSE IF k \in DOMAIN d THEN Put(d, k, Append(d[k], speed_))
                   ELSE Put(d, k, <<speed_>>)
         IN  AppendSpeeds(d1, k, Tail(speeds))

\* One iteration of "for key, df in data.items()" of
\* calculate_speed_of_crossing (lines 694-731).
SpeedIterate ==
    /\ pc \in {"start", "speed"}
    /\ Cardinality(done) < MaxSegs
    /\ \E it \in SpeedItems :
          LET result == find_values_with_video_id(df_mapping, it.name)
          IN  /\ it.name \notin done
              /\ done' = done \cup {it.name}
              /\ key' = it.name
              /\ data' = it.data
              /\ seen' = Append(seen, [name |-> it.name, events |-> it.events,
                                        retained |-> it.retained])
              /\ IF it.data = <<>> \/ result = None
                 THEN UNCHANGED speed_dict
                 ELSE speed_dict' =
                        AppendSpeeds(speed_dict,
                                     AggKey(result.city, result.state, result.time_of_day),
                                     it.speeds)
    /\ pc' = "speed"
    /\ UNCHANGED <<df_mapping, dataframe, min_x, max_x, person_id, crossed, raised,
                   counter_1, counter_2, time_, population_, var_exist, var_nt_exist, others>>

\* return speed_dict
SpeedReturn ==
    /\ pc = "speed"
    /\ pc' = "returned"
    /\ UNCHANGED <<df_mapping, segment, raised, done, seen, aggregates, others>>

NextSpeed == SpeedIterate \/ SpeedReturn

SpecSpeed == Init /\ [][NextSpeed]_vars

\* ------------------------------------------------------------ traffic_signs

\* a + b and a * b on rationals.
RAdd(a, b) == Rat(a[1] * b[2] + b[1] * a[2], a[2] * b[2])

RMul(a, b) == Rat(a[1] * b[1], a[2] * b[2])

\* Rows of the tables enumerated for the instrument counts: a person left and
\* right of the band, traffic lights (9) and stop signs (11) of two identities.
SignRows ==
    [YOLO_id : {0}, Unique_Id : {1}, X_center : {40, 60}, Height : {100}]
    \cup [YOLO_id : {9, 11}, Unique_Id : {3, 4}, X_center : {50}, Height : {100}]

SignTables ==
    Tables(SignRows, MaxSceneRows) \cup {CrowdTable(n, lit) : n \in 1..2, lit \in BOOLEAN}

\* The names of the segments: three of one city and time of day (30, 30 and
\* 60 seconds long), one of another city, one without a mapping match.
SignNames ==
    { <<"a", "_", "0">>, <<"a", "_", "60">>, <<"e", "_", "0">>, <<"d", "_", "30">>,
      <<"z", "_", "0">> }

\* instrument = dataframe[(dataframe["YOLO_id"] == 9) | (dataframe["YOLO_id"] == 11)]
\* instrument_ids = instrument["Unique Id"].unique()
instrument_ids(dataframe_) ==
    Unique(Column(SelectSeq(dataframe_, LAMBDA r : r.YOLO_id = 9 \/ r.YOLO_id = 11),
                  "Unique_Id"))

\* One segment of dfs as the script and traffic_signs meet it: its name, the
\* count the script's pedestrian_crossing returns for it, len(instrument_ids);
\* for the log, the number of distinct identities of its rows of class 9 or 11.
SignItem(mapping, k, value) ==
    LET a == Analysed(mapping, k, value)
    IN  [name |-> k, raised |-> a.raised, events |-> a.count,
         instrument_ids |-> Len(instrument_ids(value)),
         signs |-> Cardinality({value[i].Unique_Id : i \in
                                   {j \in DOMAIN value : value[j].YOLO_id \in {9, 11}}})]

\* The script reaches traffic_signs only when no time_to_cross has raised.
SignItems ==
    {it \in {SignItem(MappingTable, k, value) : k \in SignNames, value \in SignTables} :
        ~it.raised}

\* One iteration of the script's "for key, value in dfs.items()" (lines
\* 2816-2836), of which traffic_signs later reads the module-level count.
ReadSegment ==
    /\ pc \in {"start", "loop"}
    /\ Cardinality(done) < MaxSegs
    /\ \E it \in SignItems :
          /\ it.name \notin done
          /\ done' = done \cup {it.name}
          /\ key' = it.name
          /\ main_count' = it.events
          /\ seen' = Append(seen, [name |-> it.name, events |-> it.events,
                                    instrument_ids |-> it.instrument_ids,
                                    signs |-> it.signs])
    /\ pc' = "loop"
    /\ UNCHANGED <<df_mapping, dataframe, min_x, max_x, person_id, crossed, data, raised,
                   aggregates, pos, info, duration_, time_dict, final, averages, script,
                   final_dict, lookup>>

\* One iteration of "for key, value in dfs.items()" of traffic_signs (lines
\* 823-861) on the next segment of dfs. The name count of lines 855 and 857
\* is not bound in the function: it is the module-level count. Line 858
\* divides by the stored divisor and raises ZeroDivisionError when it is 0.
SignsIterate ==
    /\ pc \in {"loop", "signs"}
    /\ pos < Len(seen)
    /\ LET it == seen[pos + 1]
           result == find_values_with_video_id(df_mapping, it.name)
           k == AggKey(result.city, result.state, result.time_of_day)
           duration == result.end - result.start
           count_ == RMul(Rat(it.instrument_ids, duration), <<60, 1>>)
           old_count == info[k]
           new_count == RAdd(RMul(old_count, Rat(GetOr0(duration_, k), 1)), count_)
           divisor == GetOr0(duration_, k) + main_count
       IN  /\ key' = it.name
           /\ pos' = pos + 1
           /\ IF result = None
              THEN /\ UNCHANGED <<info, duration_, raised>>
                   /\ pc' = "signs"
              ELSE IF k \in DOMAIN info
              THEN /\ duration_' = Put(duration_, k, divisor)
                   /\ IF divisor = 0
                      THEN /\ raised' = TRUE
                           /\ pc' = "raised"
                           /\ UNCHANGED info
                      ELSE /\ info' = Put(info, k, RDiv(new_count, Rat(divisor, 1)))
                           /\ pc' = "signs"
                           /\ UNCHANGED raised
              ELSE /\ info' = Put(info, k, count_)
                   /\ pc' = "signs"
                   /\ UNCHANGED <<duration_, raised>>
    /\ UNCHANGED <<df_mapping, dataframe, min_x, max_x, person_id, crossed, data, done, seen,
                   aggregates, main_count, time_dict, final, averages, script, final_dict, lookup>>

\* return info
SignsReturn ==
    /\ pc \in {"loop", "signs"}
    /\ pos = Len(seen)
    /\ pc' = "returned"
    /\ UNCHANGED <<df_mapping, segment, raised, done, seen, aggregates, others>>

\* The script's loop over dfs followed by traffic_signs(df_mapping, dfs).
NextSigns == ReadSegment \/ SignsIterate \/ SignsReturn

SpecSigns == Init /\ [][NextSigns]_vars

\* ------------------------------------------------------ time_to_start_cross

\* A track of 10 * (Len(xs) - 1) + 1 rows of one identity: row 10 * j + 1 is at
\* xs[j + 1] and the rows up to the next stride stay there.
StrideTrack(id, class, xs, height) ==
    [r \in 1..(10 * (Len(xs) - 1) + 1) |->
        [YOLO_id |-> class, Unique_Id |-> id, X_center |-> xs[((r - 1) \div 10) + 1],
         Height |-> height]]

\* The X-centers of the rows read at the strides: 0.30 and 0.40 (both left of
\* the band) or 0.30 and 0.70 (left and right of it), from either end; with
\* boxes 0.5 high the margin is 0.05.
StridePaths ==
    UNION {[1..m -> {30, 40}] \cup [1..m -> {30, 70}] : m \in 2..(MaxStrides + 1)}

\* A person (identity 2) who stands at 0.30 for three strides, then steps to 0.40.
Bystander == StrideTrack(2, 0, <<30, 30, 30, 30, 40>>, 50)

\* The detection tables of the segments: one person track; or the bystander
\* followed by a person track and a car of the same identity at other places.
StartTables ==
    {StrideTrack(1, 0, xs, 50) : xs \in StridePaths}
    \cup {Bystander \o StrideTrack(1, 0, xs, 50) \o StrideTrack(1, 2, <<30, 70>>, 50) :
             xs \in [1..5 -> {30, 70}]}

StartNames ==
    { <<"a", "_", "0">>, <<"a", "_", "60">>, <<"b", "_", "c", "_", "0">>, <<"z", "_", "0">> }

\* x_values[i] - margin <= x_values[i+10] <= x_values[i] + margin with
\* margin = 0.1 * mean_height, mean_height = sumH / rows (all in hundredths).
WithinLeft(x, y, sumH, rows) ==
    /\ 10 * rows * x - sumH <= 10 * rows * y
    /\ 10 * rows * y <= 10 * rows * x + sumH

\* x_values[i] - margin >= x_values[i+10] >= x_values[i] + margin
WithinRight(x, y, sumH, rows) ==
    /\ 10 * rows * x - sumH >= 10 * rows * y
    /\ 10 * rows * y >= 10 * rows * x + sumH

RECURSIVE Scan_commitAtThreeOnly(_, _, _, _, _, _)
\* Scan that stops counting once committed: the value stored is always 3.
Scan_commitAtThreeOnly(x_values, sumH, rows, i, flag, consecutive_frame) ==
    IF i >= Len(x_values) - 10 THEN 0
    ELSE LET x == x_values[i + 1]
             y == x_values[i + 11]
             stable == IF x_values[1] < 50 THEN WithinLeft(x, y, sumH, rows)
                       ELSE WithinRight(x, y, sumH, rows)
         IN  IF stable
             THEN Scan_commitAtThreeOnly(x_values, sumH, rows, i + 10,
                       IF consecutive_frame + 1 >= 3 THEN 1 ELSE flag,
                       IF flag = 1 THEN consecutive_frame ELSE consecutive_frame + 1)
             ELSE IF flag = 1 THEN consecutive_frame
             ELSE Scan_commitAtThreeOnly(x_values, sumH, rows, i + 10, flag, 0)

RECURSIVE Scan_commitAtTwo(_, _, _, _, _, _)
\* Scan with the flag raised at two consecutive stable strides.
Scan_commitAtTwo(x_values, sumH, rows, i, flag, consecutive_frame) ==
    IF i >= Len(x_values) - 10 THEN 0
    ELSE LET x == x_values[i + 1]
             y == x_values[i + 11]
             stable == IF x_values[1] < 50 THEN WithinLeft(x, y, sumH, rows)
                       ELSE WithinRight(x, y, sumH, rows)
         IN  IF stable
             THEN Scan_commitAtTwo(x_values, sumH, rows, i + 10,
                       IF consecutive_frame + 1 = 2 THEN 1 ELSE flag, consecutive_frame + 1)
             ELSE IF flag = 1 THEN consecutive_frame
             ELSE Scan_commitAtTwo(x_values, sumH, rows, i + 10, flag, 0)

RECURSIVE Scan_commitAtEnd(_, _, _, _, _, _)
\* Scan that stores the count of a committed track when its rows run out, as
\* if the loop had an else branch doing what the break does.
Scan_commitAtEnd(x_values, sumH, rows, i, flag, consecutive_frame) ==
    IF i >= Len(x_values) - 10 THEN (IF flag = 1 THEN consecutive_frame ELSE 0)
    ELSE LET x == x_values[i + 1]
             y == x_values[i + 11]
             stable == IF x_values[1] < 50 THEN WithinLeft(x, y, sumH, rows)
                       ELSE WithinRight(x, y, sumH, rows)
         IN  IF stable
             THEN Scan_commitAtEnd(x_values, sumH, rows, i + 10,
                       IF consecutive_frame + 1 = 3 THEN 1 ELSE flag, consecutive_frame + 1)
             ELSE IF flag = 1 THEN consecutive_frame
             ELSE Scan_commitAtEnd(x_values, sumH, rows, i + 10, flag, 0)

RECURSIVE Scan(_, _, _, _, _, _)
\* for i in range(0, len(x_values)-10, 10): ... (lines 769-790); i is the
\* 0-based row of the track. The consecutive_frame stored in data_cross at the
\* break (at least 3), or 0 when the loop ends without one.
Scan(x_values, sumH, rows, i, flag, consecutive_frame) ==
    IF i >= Len(x_values) - 10 THEN 0
    ELSE LET x == x_values[i + 1]
             y == x_values[i + 11]
             stable == IF x_values[1] < 50 THEN WithinLeft(x, y, sumH, rows)
                       ELSE WithinRight(x, y, sumH, rows)
         IN  IF stable
             THEN Scan(x_values, sumH, rows, i + 10,
                       IF consecutive_frame + 1 = 3 THEN 1 ELSE flag, consecutive_frame + 1)
             ELSE IF flag = 1 THEN consecutive_frame
             ELSE Scan(x_values, sumH, rows, i + 10, flag, 0)

RECURSIVE Ascending(_)
\* The elements of a finite set of integers in ascending order (groupby sorts
\* the group keys).
Ascending(S) ==
    IF S = {} THEN <<>>
    ELSE LET least == CHOOSE v \in S : \A w \in S : v <= w
         IN  <<least>> \o Ascending(S \ {least})

\* data_cross of one segment (lines 747-790): <<unique_id, consecutive_frame>>
\* for the groups of the rows of class person_id whose scan reaches the break.
StartScan(df, pid) ==
    LET crossed_ids == SelectSeq(df, LAMBDA r : r.YOLO_id = pid)
        order == Ascending({crossed_ids[i].Unique_Id : i \in DOMAIN crossed_ids})
        value(id) ==
            LET group_data == RowsOfId(crossed_ids, id)
            IN  Scan(Column(group_data, "X_center"), SumSeq(Column(group_data, "Height")),
                     Len(group_data), 0, 0, 0)
    IN  [n \in DOMAIN SelectSeq(order, LAMBDA id : value(id) > 0) |->
            LET id == SelectSeq(order, LAMBDA id_ : value(id_) > 0)[n]
            IN  <<id, value(id)>>]

\* The number of strides the scan makes on a track of n rows.
StrideCount(n) == IF n <= 10 THEN 0 ELSE ((n - 11) \div 10) + 1

\* The track of person T: its rows of class 0.
TrackOf(value, T) == SelectSeq(value, LAMBDA r : r.YOLO_id = 0 /\ r.Unique_Id = T)

\* Stride j of a track (from row 10 * (j - 1) + 1 to the row 10 rows ahead) is
\* stable: the position ahead is within 10% of the mean height of the track
\* from the current position, on either side.
BandStable(track, j) ==
    10 * Len(track) * Abs(track[10 * j + 1].X_center - track[10 * (j - 1) + 1].X_center)
        <= SumSeq(Column(track, "Height"))

\* The strides of a track that break the band right after three stable ones.
CommittedBreaks(track) ==
    {b \in 4..StrideCount(Len(track)) :
        /\ ~BandStable(track, b)
        /\ \A j \in (b - 3)..(b - 1) : BandStable(track, j)}

\* The number of consecutive stable strides that end at the first such break
\* (0 when the track has none).
StableRun(track) ==
    IF CommittedBreaks(track) = {} THEN 0
    ELSE LET b == CHOOSE b \in CommittedBreaks(track) : \A c \in CommittedBreaks(track) : b <= c
         IN  CHOOSE n \in 3..(b - 1) :
                /\ \A j \in (b - n)..(b - 1) : BandStable(track, j)
                /\ b - n = 1 \/ ~BandStable(track, b - n - 1)

\* The stable runs of the persons of a table that have one, by identity.
StableRuns(value, persons) ==
    LET with_ == SelectSeq(persons, LAMBDA T : StableRun(TrackOf(value, T)) > 0)
    IN  [n \in DOMAIN with_ |-> StableRun(TrackOf(value, with_[n]))]

\* One segment as time_to_start_cross meets it: its name and data_cross; for
\* the log, the stable runs of its persons (of all of them, and of those who
\* start left of 0.5), the number of persons with three stable strides in a
\* row, the identities and the stride counts data_cross holds and the
\* identities pedestrian_crossing returned.
StartItem(mapping, k, value) ==
    LET a == Analysed(mapping, k, value)
        persons == Ascending({value[i].Unique_Id : i \in
                                 {j \in DOMAIN value : value[j].YOLO_id = 0}})
        data_cross == StartScan(value, 0)
    IN  [name |-> k, raised |-> a.raised, data_cross |-> data_cross,
         runs |-> StableRuns(value, persons),
         runs_left |-> StableRuns(value,
                          SelectSeq(persons, LAMBDA T : TrackOf(value, T)[1].X_center < 50)),
         reach3 |-> Len(SelectSeq(persons, LAMBDA T :
                        \E j \in 1..(StrideCount(Len(TrackOf(value, T))) - 2) :
                            \A i \in j..(j + 2) : BandStable(TrackOf(value, T), i))),
         recorded |-> {data_cross[n][1] : n \in DOMAIN data_cross},
         counts |-> {data_cross[n][2] : n \in DOMAIN data_cross},
         ids |-> {a.ids[n] : n \in DOMAIN a.ids}]

\* The script reaches time_to_start_cross only when no time_to_cross has raised.
StartItems ==
    {it \in {StartItem(MappingTable, k, value) : k \in StartNames, value \in StartTables} :
        ~it.raised}

\* One iteration of "for key, df in dfs.items()" of time_to_start_cross
\* (lines 746-799).
StartIterate ==
    /\ pc \in {"start", "latency"}
    /\ Cardinality(done) < MaxSegs
    /\ \E it \in StartItems :
          LET result == find_values_with_video_id(df_mapping, it.name)
              k == AggKey(result.city, result.state, result.time_of_day)
              values == [n \in DOMAIN it.data_cross |-> Rat(it.data_cross[n][2] * 10, result.fps)]
          IN  /\ it.name \notin done
              /\ done' = done \cup {it.name}
              /\ key' = it.name
              /\ seen' = Append(seen, [name |-> it.name, runs |-> it.runs,
                                        runs_left |-> it.runs_left, reach3 |-> it.reach3,
                                        recorded |-> it.recorded, counts |-> it.counts,
                                        ids |-> it.ids])
              /\ IF result = None \/ it.data_cross = <<>>
                 THEN UNCHANGED time_dict
                 ELSE IF k \in DOMAIN time_dict
                 THEN time_dict' = Put(time_dict, k, time_dict[k] \o values)
                 ELSE time_dict' = Put(time_dict, k, values)
    /\ pc' = "latency"
    /\ UNCHANGED <<df_mapping, dataframe, min_x, max_x, person_id, crossed, data, raised,
                   aggregates, signs, final, averages, script, final_dict, lookup>>

\* return time_dict
StartReturn ==
    /\ pc = "latency"
    /\ pc' = "returned"
    /\ UNCHANGED <<df_mapping, segment, raised, done, seen, aggregates, others>>

NextStart == StartIterate \/ StartReturn

SpecStart == Init /\ [][NextStart]_vars

\* ------------------------------------------------ pedestrian_cross_per_city

\* One entry of pedestrian_crossing_count as the script fills it (lines
\* 2819-2822): the name of the segment and the count pedestrian_crossing
\* returned; for the log, the number of crossing identities of the table.
CityItem(k, value) ==
    [name |-> k, count |-> pedestrian_crossing(value, 45, 55, 0)[1],
     events |-> Cardinality(CrossingSet(value, 45, 55, 0))]

CityItems == {CityItem(k, value) : k \in SignNames, value \in SceneTables}

\* CityIterate that assigns where it should add: the last segment of a key wins.
CityIterate_overwrite ==
    /\ pc \in {"start", "city"}
    /\ Cardinality(done) < MaxSegs
    /\ \E it \in CityItems :
          LET result == find_values_with_video_id(df_mapping, it.name)
              city_time_key == AggKey(result.city, result.state, result.time_of_day)
          IN  /\ it.name \notin done
              /\ done' = done \cup {it.name}
              /\ key' = it.name
              /\ seen' = Append(seen, [name |-> it.name, events |-> it.events])
              /\ IF result = None
                 THEN UNCHANGED final
                 ELSE final' = Put(final, city_time_key, it.count)
    /\ pc' = "city"
    /\ UNCHANGED <<df_mapping, dataframe, min_x, max_x, person_id, crossed, data, raised,
                   aggregates, signs, time_dict, averages, script, final_dict, lookup>>

\* One iteration of "for key, df in count.items()" of
\* pedestrian_cross_per_city (lines 948-962).
CityIterate ==
    /\ pc \in {"start", "city"}
    /\ Cardinality(done) < MaxSegs
    /\ \E it \in CityItems :
          LET result == find_values_with_video_id(df_mapping, it.name)
              city_time_key == AggKey(result.city, result.state, result.time_of_day)
          IN  /\ it.name \notin done
              /\ done' = done \cup {it.name}
              /\ key' = it.name
              /\ seen' = Append(seen, [name |-> it.name, events |-> it.events])
              /\ IF result = None
                 THEN UNCHANGED final
                 ELSE IF city_time_key \in DOMAIN final
                 THEN final' = Put(final, city_time_key, final[city_time_key] + it.count)
                 ELSE final' = Put(final, city_time_key, it.count)
    /\ pc' = "city"
    /\ UNCHANGED <<df_mapping, dataframe, min_x, max_x, person_id, crossed, data, raised,
                   aggregates, signs, time_dict, averages, script, final_dict, lookup>>

\* return final
CityReturn ==
    /\ pc = "city"
    /\ pc' = "returned"
    /\ UNCHANGED <<df_mapping, segment, raised, done, seen, aggregates, others>>

NextCity == CityIterate \/ CityReturn

SpecCity == Init /\ [][NextCity]_vars

\* ------------------------- avg_speed_of_crossing, avg_time_to_start_cross

RECURSIVE RSumSeq(_)
\* sum() of a list of floats.
RSumSeq(values) == IF values = <<>> THEN <<0, 1>> ELSE RAdd(Head(values), RSumSeq(Tail(values)))

\* The sum alone, not divided by the number of values.
Mean_sumOnly(values) == RSumSeq(values)

\* sum(values) / len(values) of a non-empty list.
Mean(values) == RDiv(RSumSeq(values), Rat(Len(values), 1))

\* avg_speed = {key: sum(values) / len(values) for key, values in
\* speed_array.items()} on what the loop of calculate_speed_of_crossing
\* returned (lines 738-741); an empty list raises ZeroDivisionError.
AvgSpeed ==
    /\ pc = "speed"
    /\ IF \E k \in DOMAIN speed_dict : speed_dict[k] = <<>>
       THEN /\ raised' = TRUE
            /\ pc' = "raised"
            /\ UNCHANGED avg_speed
       ELSE /\ avg_speed' = [k \in DOMAIN speed_dict |-> Mean(speed_dict[k])]
            /\ pc' = "avg_speed"
            /\ UNCHANGED raised
    /\ UNCHANGED <<df_mapping, segment, done, seen, aggregates, signs, time_dict, final, avg_time,
                   script, final_dict, lookup>>

\* avg_time = {key: sum(values) / len(values) for key, values in
\* time_array.items()} on what the loop of time_to_start_cross returned
\* (lines 806-809).
AvgTime ==
    /\ pc = "latency"
    /\ IF \E k \in DOMAIN time_dict : time_dict[k] = <<>>
       THEN /\ raised' = TRUE
            /\ pc' = "raised"
            /\ UNCHANGED avg_time
       ELSE /\ avg_time' = [k \in DOMAIN time_dict |-> Mean(time_dict[k])]
            /\ pc' = "avg_time"
            /\ UNCHANGED raised
    /\ UNCHANGED <<df_mapping, segment, done, seen, aggregates, signs, time_dict, final,
                   avg_speed, script, final_dict, lookup>>

\* Either of the two averaging functions: the loop of the function it calls,
\* then its comprehension.
NextAvg == SpeedIterate \/ AvgSpeed \/ StartIterate \/ AvgTime

SpecAvg == Init /\ [][NextAvg]_vars

\* ----------------------------------------------- the aggregations as functions

\* Analysis.count_object(dataframe, id): the number of groups by Unique Id of
\* the rows of class id.
count_object(dataframe_, id) ==
    Cardinality({dataframe_[i].Unique_Id : i \in
                    {j \in DOMAIN dataframe_ : dataframe_[j].YOLO_id = id}})

RECURSIVE EquipFold_skipEmpty(_, _, _, _)
\* The loop with the guard of calculate_speed_of_crossing in front ("if df ==
\* {}: continue"): a segment without a crossing event is passed over.
EquipFold_skipEmpty(mapping, dfs_, data_, n) ==
    IF n = 0 THEN [counter_1 |-> <<>>, counter_2 |-> <<>>, time_ |-> <<>>, population_ |-> <<>>]
    ELSE LET acc == EquipFold_skipEmpty(mapping, dfs_, data_, n - 1)
             result == find_values_with_video_id(mapping, dfs_[n].name)
             k == AggKey(result.city, result.state, result.time_of_day)
             c == EventCounters(dfs_[n].value, data_[dfs_[n].name])
         IN  IF result = None \/ data_[dfs_[n].name] = <<>> THEN acc
             ELSE [counter_1 |-> Put(acc.counter_1, k, GetOr0(acc.counter_1, k) + c.counter_exists),
                   counter_2 |-> Put(acc.counter_2, k, GetOr0(acc.counter_2, k) + c.counter_nt_exists),
                   time_ |-> Put(acc.time_, k, GetOr0(acc.time_, k) + (result.end - result.start)),
                   population_ |-> Put(acc.population_, k, result.population)]

RECURSIVE EquipFold(_, _, _, _)
\* The loop of crossing_event_wt_traffic_equipment (lines 882-928) over the
\* first n entries of data; dfs_ is a sequence of [name, value], data_ maps
\* the names to the dicts of time_to_cross.
EquipFold(mapping, dfs_, data_, n) ==
    IF n = 0 THEN [counter_1 |-> <<>>, counter_2 |-> <<>>, time_ |-> <<>>, population_ |-> <<>>]
    ELSE LET acc == EquipFold(mapping, dfs_, data_, n - 1)
             result == find_values_with_video_id(mapping, dfs_[n].name)
             k == AggKey(result.city, result.state, result.time_of_day)
             c == EventCounters(dfs_[n].value, data_[dfs_[n].name])
         IN  IF result = None THEN acc
             ELSE [counter_1 |-> Put(acc.counter_1, k, GetOr0(acc.counter_1, k) + c.counter_exists),
                   counter_2 |-> Put(acc.counter_2, k, GetOr0(acc.counter_2, k) + c.counter_nt_exists),
                   time_ |-> Put(acc.time_, k, GetOr0(acc.time_, k) + (result.end - result.start)),
                   population_ |-> Put(acc.population_, k, result.population)]

\* Analysis.crossing_event_wt_traffic_equipment(df_mapping, dfs, data)
crossing_event_wt_traffic_equipment(mapping, dfs_, data_) ==
    EquipFold(mapping, dfs_, data_, Len(dfs_))

\* Analysis.nomalised_crossing_wth_traffic_equipment(df_mapping, dfs, data)
nomalised_crossing_wth_traffic_equipment(mapping, dfs_, data_) ==
    LET r == crossing_event_wt_traffic_equipment(mapping, dfs_, data_)
    IN  [var_exist |-> [k \in DOMAIN r.time_ |->
                          RDiv(Rat(r.counter_1[k] * 60, r.time_[k]), Rat(r.population_[k], 1))],
         var_nt_exist |-> [k \in DOMAIN r.time_ |->
                          RDiv(Rat(r.counter_2[k] * 60, r.time_[k]), Rat(r.population_[k], 1))]]

RECURSIVE SpeedFold(_, _, _, _)
\* The loop of calculate_speed_of_crossing (lines 694-731) over the first n
\* entries of data.
SpeedFold(mapping, dfs_, data_, n) ==
    IF n = 0 THEN <<>>
    ELSE LET acc == SpeedFold(mapping, dfs_, data_, n - 1)
             result == find_values_with_video_id(mapping, dfs_[n].name)
             df == data_[dfs_[n].name]
         IN  IF df = <<>> \/ result = None THEN acc
             ELSE AppendSpeeds(acc, AggKey(result.city, result.state, result.time_of_day),
                               [i \in DOMAIN df |->
                                   SpeedOf(dfs_[n].value, df[i][1], df[i][2], result.avg_height)])

\* Analysis.calculate_speed_of_crossing(df_mapping, dfs, data)
calculate_speed_of_crossing(mapping, dfs_, data_) == SpeedFold(mapping, dfs_, data_, Len(dfs_))

RECURSIVE StartFold(_, _, _)
\* The loop of time_to_start_cross (lines 746-799) over the first n segments.
StartFold(mapping, dfs_, n) ==
    IF n = 0 THEN <<>>
    ELSE LET acc == StartFold(mapping, dfs_, n - 1)
             result == find_values_with_video_id(mapping, dfs_[n].name)
             k == AggKey(result.city, result.state, result.time_of_day)
             data_cross == StartScan(dfs_[n].value, 0)
             values == [i \in DOMAIN data_cross |-> Rat(data_cross[i][2] * 10, result.fps)]
         IN  IF result = None \/ data_cross = <<>> THEN acc
             ELSE IF k \in DOMAIN acc THEN Put(acc, k, acc[k] \o values)
             ELSE Put(acc, k, values)

\* Analysis.time_to_start_cross(df_mapping, dfs, data)
time_to_start_cross(mapping, dfs_) == StartFold(mapping, dfs_, Len(dfs_))

\* Analysis.avg_speed_of_crossing / Analysis.avg_time_to_start_cross on the
\* lists their first line computes.
Averages(lists) == [k \in DOMAIN lists |-> Mean(lists[k])]

RECURSIVE SignsFold(_, _, _, _)
\* The loop of traffic_signs (lines 823-861) over the first n segments, with
\* the module-level count it reads: [raised, info, duration_].
SignsFold(mapping, dfs_, count_global, n) ==
    IF n = 0 THEN [raised |-> FALSE, info |-> <<>>, duration_ |-> <<>>]
    ELSE LET acc == SignsFold(mapping, dfs_, count_global, n - 1)
             result == find_values_with_video_id(mapping, dfs_[n].name)
             k == AggKey(result.city, result.state, result.time_of_day)
             count_ == RMul(Rat(Len(instrument_ids(dfs_[n].value)), result.end - result.start),
                            <<60, 1>>)
             new_count == RAdd(RMul(acc.info[k], Rat(GetOr0(acc.duration_, k), 1)), count_)
             divisor == GetOr0(acc.duration_, k) + count_global
         IN  IF acc.raised \/ result = None THEN acc
             ELSE IF k \in DOMAIN acc.info
             THEN IF divisor = 0
                  THEN [raised |-> TRUE, info |-> acc.info,
                        duration_ |-> Put(acc.duration_, k, divisor)]
                  ELSE [raised |-> FALSE,
                        info |-> Put(acc.info, k, RDiv(new_count, Rat(divisor, 1))),
                        duration_ |-> Put(acc.duration_, k, divisor)]
             ELSE [raised |-> FALSE, info |-> Put(acc.info, k, count_),
                   duration_ |-> acc.duration_]

\* Analysis.traffic_signs(df_mapping, dfs)
traffic_signs(mapping, dfs_, count_global) == SignsFold(mapping, dfs_, count_global, Len(dfs_))

RECURSIVE CityFold_lastCount(_, _, _, _)
\* The loop with final[city_time_key] = count[key] on every segment: the
\* count of the last segment of the key, not the sum.
CityFold_lastCount(mapping, dfs_, counts, n) ==
    IF n = 0 THEN <<>>
    ELSE LET acc == CityFold_lastCount(mapping, dfs_, counts, n - 1)
             result == find_values_with_video_id(mapping, dfs_[n].name)
             city_time_key == AggKey(result.city, result.state, result.time_of_day)
         IN  IF result = None THEN acc
             ELSE Put(acc, city_time_key, counts[dfs_[n].name].count)

RECURSIVE CityFold(_, _, _, _)
\* The loop of pedestrian_cross_per_city (lines 948-962) over the first n
\* entries of pedestrian_crossing_count.
CityFold(mapping, dfs_, counts, n) ==
    IF n = 0 THEN <<>>
    ELSE LET acc == CityFold(mapping, dfs_, counts, n - 1)
             result == find_values_with_video_id(mapping, dfs_[n].name)
             city_time_key == AggKey(result.city, result.state, result.time_of_day)
         IN  IF result = None THEN acc
             ELSE Put(acc, city_time_key, GetOr0(acc, city_time_key) + counts[dfs_[n].name].count)

\* Analysis.pedestrian_cross_per_city(pedestrian_crossing_count, df_mapping)
pedestrian_cross_per_city(counts, dfs_, mapping) == CityFold(mapping, dfs_, counts, Len(dfs_))

\* ------------------------------------------------------------------ the script

\* The detection tables of the csv files of a run: a person who crosses in
\* sight of a traffic light, two who cross without one, a person who waits
\* three strides at 0.30 and crosses, one who waits and steps to 0.40, and a
\* stop sign alone.
RunTables ==
    { CrowdTable(1, TRUE), CrowdTable(2, FALSE),
      StrideTrack(1, 0, <<30, 30, 30, 30, 70>>, 50),
      StrideTrack(1, 0, <<30, 30, 30, 30, 40>>, 50),
      <<[YOLO_id |-> 11, Unique_Id |-> 5, X_center |-> 50, Height |-> 100]>> }

\* What read_csv_files can return: up to MaxSegs files with different names.
RunDfs ==
    {d \in UNION {[1..m -> [name : SceneNames, value : RunTables]] : m \in 0..MaxSegs} :
        \A i \in DOMAIN d, j \in DOMAIN d : i # j => d[i].name # d[j].name}

\* tuple[i] for a Python index i (negative: from the end).
PyIndex(tuple, i) == IF i >= 0 THEN tuple[i + 1] ELSE tuple[Len(tuple) + i + 1]

\* The presentation functions the script calls, in order (lines 2865-2869).
PlotOrder ==
    << "plot_crossing_without_traffic_light", "plot_crossing_without_traffic_light_norm",
       "plot_crossing_with_traffic_light", "plot_crossing_with_traffic_light_norm",
       "scatter_with_and_without_traffic_light_norm" >>

\* The indices at which each presentation function reads data_tuple (lines
\* 1014, 2109, 1332, 2426, 2745-2746 and 982).
PlotReads(fn) ==
    CASE fn = "plot_crossing_without_traffic_light" -> <<13>>
      [] fn = "plot_crossing_without_traffic_light_norm" -> <<15>>
      [] fn = "plot_crossing_with_traffic_light" -> <<12>>
      [] fn = "plot_crossing_with_traffic_light_norm" -> <<14>>
      [] fn = "scatter_with_and_without_traffic_light_norm" -> <<14, 15>>
      [] fn = "traffic_mortality_vs_crossing_event_wt_traffic_light" -> <<-8>>

\* with open(pickle_file_path, 'rb'): data_tuple = pickle.load(file), then the
\* positional reads of the function.
ReadSnapshot(fn) ==
    [fn |-> fn, got |-> [j \in DOMAIN PlotReads(fn) |-> PyIndex(pickle_file, PlotReads(fn)[j])]]

\* if os.path.exists(pickle_file_path): the 21 names are bound to the fields
\* of the tuple in the file (lines 2802-2811).
LoadSnapshot ==
    /\ pc = "start"
    /\ pickle_file # <<>>
    /\ main' = [f \in DOMAIN main |->
                  pickle_file[CHOOSE i \in DOMAIN LoadOrder : LoadOrder[i] = f]]
    /\ log' = Append(log, "load")
    /\ pc' = "plots"
    /\ UNCHANGED <<df_mapping, segment, raised, done, seen, aggregates, signs, time_dict, final,
                   averages, pickle_file, dfs, shown, run, before_save, final_dict, lookup>>

\* else: dfs = Analysis.read_csv_files(...) (line 2814).
ReadCsvFiles ==
    /\ pc = "start"
    /\ pickle_file = <<>>
    /\ \E d \in RunDfs : dfs' = d
    /\ pos' = 0
    /\ log' = Append(log, "read_csv_files")
    /\ pc' = "loop"
    /\ UNCHANGED <<df_mapping, segment, raised, done, seen, aggregates, main_count, info,
                   duration_, time_dict, final, averages, pickle_file, main, shown, run,
                   before_save, final_dict, lookup>>

\* One iteration of "for key, value in dfs.items()" (lines 2816-2836); a
\* time_to_cross that raises ends the run.
LoopIterate ==
    /\ pc = "loop"
    /\ pos < Len(dfs)
    /\ LET k == dfs[pos + 1].name
           value == dfs[pos + 1].value
           c == pedestrian_crossing(value, 45, 55, 0)
           t == time_to_cross(df_mapping, value, c[2], k)
           counted == [main EXCEPT
                          !.pedestrian_crossing_count = Put(@, k, [count |-> c[1], ids |-> c[2]])]
       IN  /\ key' = k
           /\ main_count' = c[1]
           /\ pos' = pos + 1
           /\ log' = Append(log, "analyse")
           /\ raised' = t.raised
           /\ IF t.raised
              THEN /\ main' = counted
                   /\ pc' = "aborted"
              ELSE /\ main' = [counted EXCEPT
                         !.data = Put(@, k, t.var),
                         !.person_counter = @ + count_object(value, 0),
                         !.bicycle_counter = @ + count_object(value, 1),
                         !.car_counter = @ + count_object(value, 2),
                         !.motorcycle_counter = @ + count_object(value, 3),
                         !.bus_counter = @ + count_object(value, 5),
                         !.truck_counter = @ + count_object(value, 7),
                         !.cellphone_counter = @ + count_object(value, 67),
                         !.traffic_light_counter = @ + count_object(value, 9),
                         !.stop_sign_counter = @ + count_object(value, 11)]
                   /\ pc' = "loop"
    /\ UNCHANGED <<df_mapping, dataframe, min_x, max_x, person_id, crossed, data, done, seen,
                   aggregates, info, duration_, time_dict, final, averages, pickle_file, dfs,
                   shown, run, before_save, final_dict, lookup>>

\* The eight assignments after the loop (lines 2838-2847); a traffic_signs
\* that raises ends the run with the names before it bound.
Aggregate ==
    /\ pc = "loop"
    /\ pos = Len(dfs)
    /\ LET equip == crossing_event_wt_traffic_equipment(df_mapping, dfs, main.data)
           norm == nomalised_crossing_wth_traffic_equipment(df_mapping, dfs, main.data)
           speed_values == calculate_speed_of_crossing(df_mapping, dfs, main.data)
           time_values == time_to_start_cross(df_mapping, dfs)
           sign == traffic_signs(df_mapping, dfs, main_count)
           upto_avg == [main EXCEPT
                           !.with_trf_light = equip.counter_1,
                           !.without_trf_light = equip.counter_2,
                           !.with_trf_light_norm = norm.var_exist,
                           !.without_trf_light_norm = norm.var_nt_exist,
                           !.speed_values = speed_values,
                           !.time_values = time_values,
                           !.avg_speed = Averages(speed_values),
                           !.avg_time = Averages(time_values)]
       IN  /\ raised' = sign.raised
           /\ IF sign.raised
              THEN /\ main' = upto_avg
                   /\ pc' = "aborted"
              ELSE /\ main' = [upto_avg EXCEPT
                         !.traffic_sign_city = sign.info,
                         !.pedestrian_cross_city =
                             pedestrian_cross_per_city(main.pedestrian_crossing_count, dfs,
                                                       df_mapping)]
                   /\ pc' = "dump"
    /\ log' = Append(log, "aggregate")
    /\ UNCHANGED <<df_mapping, segment, done, seen, aggregates, signs, time_dict, final, averages,
                   pickle_file, dfs, shown, run, before_save, final_dict, lookup>>

\* pickle.dump((data, ..., avg_speed), file) (lines 2850-2855).
Dump ==
    /\ pc = "dump"
    /\ pickle_file' = [i \in DOMAIN DumpOrder |-> main[DumpOrder[i]]]
    /\ before_save' = main
    /\ log' = Append(log, "dump")
    /\ pc' = "plots"
    /\ UNCHANGED <<df_mapping, segment, raised, done, seen, aggregates, signs, time_dict, final,
                   averages, main, dfs, shown, run, final_dict, lookup>>

\* The next of the five presentation calls of the script (lines 2865-2869):
\* its read of the snapshot.
Plot ==
    /\ pc = "plots"
    /\ shown' = Append(shown, ReadSnapshot(PlotOrder[Len(shown) + 1]))
    /\ log' = Append(log, "read")
    /\ pc' = IF Len(shown) + 1 = Len(PlotOrder) THEN "exit" ELSE "plots"
    /\ UNCHANGED <<df_mapping, segment, raised, done, seen, aggregates, signs, time_dict, final,
                   averages, pickle_file, main, dfs, run, before_save, final_dict, lookup>>

\* A call of traffic_mortality_vs_crossing_event_wt_traffic_light, which the
\* script does not make itself, once its plots are done (lines 979-982).
TrafficMortalityCall ==
    /\ pc = "exit"
    /\ pickle_file # <<>>
    /\ Len(shown) = Len(PlotOrder)
    /\ shown' = Append(shown,
                       ReadSnapshot("traffic_mortality_vs_crossing_event_wt_traffic_light"))
    /\ log' = Append(log, "read")
    /\ UNCHANGED <<pc, df_mapping, segment, raised, done, seen, aggregates, signs, time_dict,
                   final, averages, pickle_file, main, dfs, run, before_save, final_dict, lookup>>

\* The script is started again: a new process, the file system as it was left.
Restart ==
    /\ pc \in {"exit", "aborted"}
    /\ run < MaxRuns
    /\ run' = run + 1
    /\ pc' = "start"
    /\ main' = MainAtStart
    /\ main_count' = None
    /\ pos' = 0
    /\ key' = <<>>
    /\ raised' = FALSE
    /\ dfs' = <<>>
    /\ log' = <<>>
    /\ shown' = <<>>
    /\ UNCHANGED <<df_mapping, dataframe, min_x, max_x, person_id, crossed, data, done, seen,
                   aggregates, info, duration_, time_dict, final, averages, pickle_file,
                   before_save, final_dict, lookup>>

NextRun ==
    \/ LoadSnapshot
    \/ ReadCsvFiles
    \/ LoopIterate
    \/ Aggregate
    \/ Dump
    \/ Plot
    \/ TrafficMortalityCall
    \/ Restart

SpecRun == Init /\ [][NextRun]_vars

\* ---------------------------------------------------- keys of the mappings

RECURSIVE FirstSep(_)
\* Position of the first "_" of a string (0 when it has none).
FirstSep(s) ==
    IF s = <<>> THEN 0
    ELSE IF s[1] = "_" THEN 1
    ELSE IF FirstSep(Tail(s)) = 0 THEN 0
    ELSE 1 + FirstSep(Tail(s))

RECURSIVE Split(_)
\* key.split('_'): the pieces between the separators, empty ones included.
Split(s) ==
    IF FirstSep(s) = 0 THEN <<s>>
    ELSE <<SubSeq(s, 1, FirstSep(s) - 1)>> \o Split(SubSeq(s, FirstSep(s) + 1, Len(s)))

\* City names a mapping.csv may hold.
KeyCities == { <<"Delft">>, <<"Austin">>, <<"x", "_", "y">> }

\* State names a mapping.csv may hold; the empty field is read as NaN.
KeyStates == { <<>>, <<"Texas">>, <<"y">>, <<"s", "_", "t">> }

\* mapping.csv with other names in its city and state columns.
KeyMappings ==
    {[MappingTable EXCEPT ![1].city = c1, ![1].state = s1, ![2].city = c2, ![2].state = s2] :
        c1 \in KeyCities, s1 \in KeyStates, c2 \in KeyCities, s2 \in KeyStates}

\* df_mapping = pd.read_csv("mapping.csv") (line 2789) for any of them.
InitKey ==
    /\ df_mapping \in KeyMappings
    /\ Started

\* The csv files of a run whose segments the mapping lists: by day and by
\* night in the first city, by day in the second.
KeyDfs ==
    {d \in UNION {[1..m -> [name : {<<"a", "_", "0">>, <<"b", "_", "c", "_", "0">>,
                                    <<"d", "_", "30">>},
                            value : {CrowdTable(1, FALSE), CrowdTable(2, FALSE)}]] :
                     m \in 0..MaxSegs} :
        \A i \in DOMAIN d, j \in DOMAIN d : i # j => d[i].name # d[j].name}

\* The keys of a per-city mapping in the order the aggregation stored them
\* (dict order is insertion order).
items(mapping, dfs_) ==
    LET found == SelectSeq(dfs_, LAMBDA e : find_values_with_video_id(mapping, e.name) # None)
    IN  Unique([n \in DOMAIN found |->
                   LET result == find_values_with_video_id(mapping, found[n].name)
                   IN  AggKey(result.city, result.state, result.time_of_day)])

\* The rows get_value filters: column city equal to column_value1 and column
\* state equal to column_value2, "unknown" standing for NaN (lines 441-448).
GetValueRows(df, column_value1, column_value2) ==
    SelectSeq(df, LAMBDA row :
        /\ row.city = column_value1
        /\ IF column_value2 = <<"unknown">> THEN row.state = <<>>
           ELSE row.state = column_value2)

\* Analysis.get_value(df, "city", column_value1, "state", column_value2, target_column)
get_value(df, column_value1, column_value2, target_column) ==
    LET result == GetValueRows(df, column_value1, column_value2)
    IN  IF result # <<>> THEN result[1][target_column] ELSE None

\* The script's loop and its call of crossing_event_wt_traffic_equipment
\* (lines 2814-2838) on the csv files of a run.
KeyAggregate ==
    /\ pc = "start"
    /\ \E d \in KeyDfs :
          LET analysed == [n \in DOMAIN d |-> Analysed(df_mapping, d[n].name, d[n].value)]
              data_ == [k \in {d[n].name : n \in DOMAIN d} |->
                           analysed[CHOOSE n \in DOMAIN d : d[n].name = k].data]
              r == crossing_event_wt_traffic_equipment(df_mapping, d, data_)
          IN  /\ dfs' = d
              /\ counter_1' = r.counter_1
              /\ counter_2' = r.counter_2
              /\ time_' = r.time_
              /\ population_' = r.population_
    /\ pos' = 0
    /\ pc' = "plot"
    /\ UNCHANGED <<df_mapping, segment, raised, done, seen, var_exist, var_nt_exist, speed_dict,
                   main_count, info, duration_, time_dict, final, averages, pickle_file, main,
                   log, shown, run, before_save, final_dict, lookup>>

\* One iteration of "for city_condition, count in without_trf_light.items()"
\* of plot_crossing_without_traffic_light (lines 1016-1028); an unpacking of
\* other than three pieces raises ValueError.
PlotSplitIterate ==
    /\ pc = "plot"
    /\ pos < Len(items(df_mapping, dfs))
    /\ LET city_condition == items(df_mapping, dfs)[pos + 1]
           count == counter_2[city_condition]
           pieces == Split(city_condition)
           city == pieces[1]
           state == pieces[2]
           condition == pieces[3]
           country == get_value(df_mapping, city, state, "country")
           iso_code == get_value(df_mapping, city, state, "ISO_country")
           city_state == city \o <<"_">> \o state
           entry == IF city_state \in DOMAIN final_dict THEN final_dict[city_state]
                    ELSE [without_trf_light_0 |-> None, without_trf_light_1 |-> None,
                          country |-> country, iso |-> iso_code]
       IN  /\ key' = city_condition
           /\ IF Len(pieces) # 3
              THEN /\ raised' = TRUE
                   /\ pc' = "raised"
                   /\ UNCHANGED <<pos, seen, final_dict>>
              ELSE /\ pos' = pos + 1
                   /\ seen' = Append(seen, [key |-> city_condition, city |-> city,
                                            state |-> state, condition |-> condition])
                   /\ final_dict' =
                          IF GetValueRows(df_mapping, city, state) = <<>> THEN final_dict
                          ELSE IF condition = <<"0">>
                          THEN Put(final_dict, city_state,
                                   [entry EXCEPT !.without_trf_light_0 = count])
                          ELSE Put(final_dict, city_state,
                                   [entry EXCEPT !.without_trf_light_1 = count])
                   /\ UNCHANGED <<pc, raised>>
    /\ UNCHANGED <<df_mapping, dataframe, min_x, max_x, person_id, crossed, data, done,
                   aggregates, main_count, info, duration_, time_dict, final, averages, script,
                   lookup>>

\* The loop is over: the function goes on to draw final_dict.
PlotSplitDone ==
    /\ pc = "plot"
    /\ pos = Len(items(df_mapping, dfs))
    /\ pc' = "drawn"
    /\ UNCHANGED <<df_mapping, segment, raised, done, seen, aggregates, others>>

NextKey == KeyAggregate \/ PlotSplitIterate \/ PlotSplitDone

SpecKey == InitKey /\ [][NextKey]_vars

\* ------------------------------------------------- the lookup on its own

\* Rows a mapping.csv may hold, with parallel per-video lists: a video listed
\* twice in one row, a start offset listed twice for one video, a video that
\* is also listed in another row, and video names that differ after their
\* first "_" only.
FindRows ==
    { [city |-> <<"Delft">>, state |-> <<>>, country |-> "Netherlands", ISO_country |-> "NLD",
       videos |-> << <<"a">>, <<"b", "_", "c">>, <<"a">> >>,
       start_time |-> << <<0, 60, 0>>, <<0>>, <<30, 0>> >>,
       end_time |-> << <<30, 90, 45>>, <<30>>, <<60, 20>> >>,
       time_of_day |-> << <<0, 1, 1>>, <<1>>, <<0, 1>> >>,
       fps_list |-> <<10, 30, 25>>,
       population_city |-> 1000, population_country |-> 17000, avg_height |-> 120],
      [city |-> <<"Austin">>, state |-> <<"Texas">>, country |-> "USA", ISO_country |-> "USA",
       videos |-> << <<"d">>, <<"a">> >>,
       start_time |-> << <<30>>, <<60, 30>> >>,
       end_time |-> << <<60>>, <<75, 50>> >>,
       time_of_day |-> << <<0>>, <<0, 1>> >>,
       fps_list |-> <<10, 60>>,
       population_city |-> 2000, population_country |-> 330000, avg_height |-> 180],
      [city |-> <<"Lyon">>, state |-> <<>>, country |-> "France", ISO_country |-> "FRA",
       videos |-> << <<"b">>, <<"d">> >>,
       start_time |-> << <<0, 30>>, <<30, 0>> >>,
       end_time |-> << <<10, 40>>, <<55, 15>> >>,
       time_of_day |-> << <<1, 0>>, <<1, 0>> >>,
       fps_list |-> <<24, 50>>,
       population_city |-> 500, population_country |-> 68000, avg_height |-> 170],
      [city |-> <<"Oslo">>, state |-> <<"Oslo">>, country |-> "Norway", ISO_country |-> "NOR",
       videos |-> << >>, start_time |-> << >>, end_time |-> << >>, time_of_day |-> << >>,
       fps_list |-> << >>,
       population_city |-> 700, population_country |-> 5000, avg_height |-> 175] }

\* The mapping tables of at most MaxMapRows of these rows, in any order.
FindMappings ==
    {m \in UNION {[1..n -> FindRows] : n \in 0..MaxMapRows} :
        \A i \in DOMAIN m, j \in DOMAIN m : i # j => m[i] # m[j]}

\* The keys looked up: csv file names "<video>_<start>".
FindKeys ==
    {id \o <<"_", start_>> :
        id \in { <<"a">>, <<"b">>, <<"b", "_", "c">>, <<"d">>, <<"z">> },
        start_ \in {"0", "30", "60"}}

\* df_mapping = pd.read_csv("mapping.csv") (line 2789) for any of the tables.
InitFind ==
    /\ df_mapping \in FindMappings
    /\ Started

\* A call result = Analysis.find_values_with_video_id(df_mapping, key).
FindCall ==
    /\ pc = "start"
    /\ \E k \in FindKeys :
          /\ key' = k
          /\ lookup' = find_values_with_video_id(df_mapping, k)
    /\ pc' = "found"
    /\ UNCHANGED <<df_mapping, dataframe, min_x, max_x, person_id, crossed, data, raised, done,
                   seen, aggregates, signs, time_dict, final, averages, script, final_dict>>

NextFind == FindCall

SpecFind == InitFind /\ [][NextFind]_vars

\* --------------------------------------------- time_to_cross on its own

\* The lists of identities of a table, none twice, in any order.
IdLists(df) ==
    LET present == {df[i].Unique_Id : i \in DOMAIN df}
    IN  {ids \in UNION {[1..n -> present] : n \in 0..Cardinality(present)} :
            \A i \in DOMAIN ids, j \in DOMAIN ids : i # j => ids[i] # ids[j]}

\* Segments of 10 and of 30 frames per second, and one the mapping lacks.
WalkNames == { <<"a", "_", "0">>, <<"b", "_", "c", "_", "0">>, <<"z", "_", "0">> }

\* A call data = Analysis.time_to_cross(dataframe, ids, video_id) with any
\* identities of the table, crossing or not.
TimeToCrossCall ==
    /\ pc = "start"
    /\ \E k \in WalkNames, df \in Tables(BandRows, MaxRows) :
          \E ids \in IdLists(df) :
             LET t == time_to_cross(df_mapping, df, ids, k)
             IN  /\ key' = k
                 /\ dataframe' = df
                 /\ crossed' = <<Len(ids), ids>>
                 /\ data' = t.var
                 /\ raised' = t.raised
                 /\ pc' = IF t.raised THEN "raised" ELSE "timed"
    /\ UNCHANGED <<df_mapping, min_x, max_x, person_id, done, seen, aggregates, others>>

NextWalk == TimeToCrossCall

SpecWalk == Init /\ [][NextWalk]_vars

\* --------------------------------------------- traffic_signs, two runs

\* The csv files of a run, in the order read_csv_files lists them (the order
\* of os.listdir): segments of one city and time of day and of another, with
\* one or two crossings, with and without a traffic light.
TwiceDfs ==
    {d \in UNION {[1..m -> [name : {<<"a", "_", "0">>, <<"a", "_", "60">>, <<"d", "_", "30">>},
                            value : {CrowdTable(1, TRUE), CrowdTable(2, FALSE),
                                     <<[YOLO_id |-> 9, Unique_Id |-> 5, X_center |-> 50,
                                        Height |-> 100]>>}]] :
                     m \in 1..MaxSegs} :
        \A i \in DOMAIN d, j \in DOMAIN d : i # j => d[i].name # d[j].name}

\* The module-level count after the script's loop over dfs (line 2823): the
\* crossing count of the segment analysed last.
CountAfterLoop(d) ==
    IF d = <<>> THEN None ELSE pedestrian_crossing(d[Len(d)].value, 45, 55, 0)[1]

\* The script's loop over the csv files followed by its call
\* traffic_sign_city = Analysis.traffic_signs(df_mapping, dfs) (lines
\* 2816-2846), in one run of the script; at most two runs are compared.
SignsRun ==
    /\ pc \in {"start", "called"}
    /\ Len(seen) < 2
    /\ \E d \in TwiceDfs :
          LET r == traffic_signs(df_mapping, d, CountAfterLoop(d))
          IN  /\ dfs' = d
              /\ main_count' = CountAfterLoop(d)
              /\ info' = r.info
              /\ duration_' = r.duration_
              /\ raised' = r.raised
              /\ seen' = Append(seen, [dfs |-> d, raised |-> r.raised, info |-> r.info])
    /\ pos' = Len(dfs')
    /\ pc' = "called"
    /\ UNCHANGED <<df_mapping, segment, done, aggregates, time_dict, final, averages,
                   pickle_file, main, log, shown, run, before_save, final_dict, lookup>>

NextTwice == SignsRun

SpecTwice == Init /\ [][NextTwice]_vars

\* ------------------------------------------------- pedestrian_crossing claims

\* The identities a call returned, as a set.
ReturnedIds == {crossed[2][n] : n \in DOMAIN crossed[2]}

\* The identities whose track (the rows of that identity) is a single row.
SingleRowIds == {T \in ReturnedIds : Len(RowsOfId(dataframe, T)) = 1}

\* C1: pedestrian_crossing returns exactly the identities T that have, among
\* the rows of class person_id, a row with X-center <= min_x and a row with
\* X-center >= max_x; the count is the number of distinct such identities.
C1_CrossingSet ==
    pc = "crossed" =>
        /\ ReturnedIds = CrossingSet(dataframe, min_x, max_x, person_id)
        /\ crossed[1] = Cardinality(ReturnedIds)
        /\ crossed[1] = Len(crossed[2])

\* C1 witness: one identity is returned while another, whose rows of all
\* classes together would meet both conditions, is not.
C1_Witness ==
    /\ pc = "crossed"
    /\ crossed[1] = 1
    /\ \E T \in {dataframe[i].Unique_Id : i \in DOMAIN dataframe} \ ReturnedIds :
          GroupCrosses(RowsOfId(dataframe, T), min_x, max_x)

Meta == find_values_with_video_id(df_mapping, key)

\* C3: for every crossing identity time_to_cross returns the number of rows
\* from the first occurrence of the extreme X-center that comes first to the
\* first occurrence of the opposite extreme, divided by the frame rate.
C3_TimeIsExtremeSpan ==
    pc = "analysed" =>
        \A T \in ReturnedIds :
            /\ HasKey(data, T)
            /\ Get(data, T)[1] * Meta.fps = ExtremeSpan(dataframe, T) * Get(data, T)[2]

\* C3 witness: a right-to-left crossing (the maximum comes first) timed over
\* three rows.
C3_Witness ==
    /\ pc = "analysed"
    /\ \E T \in ReturnedIds :
          LET xs == Column(RowsOfId(dataframe, T), "X_center")
          IN  /\ FirstIndex(xs, SeqMax(xs)) < FirstIndex(xs, SeqMin(xs))
              /\ Get(data, T) = Rat(3, Meta.fps)

\* The scenario of C4: one track of 20 rows rising from 0.10 to 0.90, 10 fps,
\* detected with min_x = 0.2 and max_x = 0.8.
RisingScenario ==
    /\ pc = "analysed"
    /\ min_x = 20
    /\ max_x = 80
    /\ Meta # None
    /\ Meta.fps = 10
    /\ Len(dataframe) = 20
    /\ \A i \in DOMAIN dataframe : dataframe[i].Unique_Id = 1 /\ dataframe[i].YOLO_id = 0
    /\ dataframe[1].X_center = 10
    /\ dataframe[20].X_center = 90
    /\ \A i \in 1..19 : dataframe[i].X_center < dataframe[i + 1].X_center

\* The rows from the first row at or right of lo through the first row at or
\* right of hi.
BandSpan(df, lo, hi) ==
    LET xs == Column(df, "X_center")
        iLo == CHOOSE i \in DOMAIN xs : xs[i] >= lo /\ \A j \in 1..(i - 1) : xs[j] < lo
        iHi == CHOOSE i \in DOMAIN xs : xs[i] >= hi /\ \A j \in 1..(i - 1) : xs[j] < hi
    IN  iHi - iLo + 1

\* C4 as stated: in the scenario the time-to-cross is the number of rows of
\* the band between min_x and max_x, divided by 10.
C4_TimeOverBand ==
    RisingScenario =>
        /\ HasKey(data, 1)
        /\ Get(data, 1) = Rat(BandSpan(dataframe, min_x, max_x), 10)

\* C4 amended: in the scenario the time-to-cross is the number of rows from
\* the track's own minimum (its first row) to its own maximum (its last row),
\* all 20 rows, divided by 10: 2 seconds, whatever min_x and max_x are.
C4_TimeOverTrack ==
    RisingScenario =>
        /\ HasKey(data, 1)
        /\ Get(data, 1) = Rat(Len(dataframe), 10)
        /\ Get(data, 1) = <<2, 1>>

\* C4 witness: the scenario, with the track detected as crossing and the band
\* narrower than the track.
C4_Witness ==
    /\ RisingScenario
    /\ ReturnedIds = {1}
    /\ BandSpan(dataframe, min_x, max_x) < Len(dataframe)

\* C8: a segment without a mapping match is skipped and nothing is raised,
\* also when it has a crossing identity.
C8_MissingLookupSkipped ==
    (pc # "start" /\ Meta = None) => (~raised /\ data = <<>>)

\* ---------------------------- crossing_event_wt_traffic_equipment claims

\* The logged segments that have a mapping match.
Matched == {n \in DOMAIN seen : find_values_with_video_id(df_mapping, seen[n].name) # None}

\* The metadata and the (city,state,condition) key of logged segment n.
MetaOf(n) == find_values_with_video_id(df_mapping, seen[n].name)

KeyOf(n) == AggKey(MetaOf(n).city, MetaOf(n).state, MetaOf(n).time_of_day)

\* The keys of the logged segments.
SeenKeys == {KeyOf(n) : n \in Matched}

\* Over the logged segments mapped to key k: crossing events, events with
\* equipment, and seconds of video.
TotalEvents(k) == SumOver([n \in Matched |-> seen[n].events], {n \in Matched : KeyOf(n) = k})

TotalWith(k) == SumOver([n \in Matched |-> seen[n].with], {n \in Matched : KeyOf(n) = k})

TotalDuration(k) ==
    SumOver([n \in Matched |-> MetaOf(n).end - MetaOf(n).start], {n \in Matched : KeyOf(n) = k})

\* C5: every crossing event is counted in exactly one bucket: for every key
\* the with-count plus the without-count is the number of crossing events of
\* the segments mapped to that key.
C5_BucketsSumToEvents ==
    pc \in {"equip", "normalised"} =>
        /\ DOMAIN counter_1 = SeenKeys
        /\ DOMAIN counter_2 = SeenKeys
        /\ \A k \in SeenKeys : counter_1[k] + counter_2[k] = TotalEvents(k)

\* C5 witness: a key fed by two segments with events in both buckets.
C5_Witness ==
    /\ pc = "equip"
    /\ \E k \in SeenKeys :
          /\ Cardinality({n \in Matched : KeyOf(n) = k}) = 2
          /\ counter_1[k] >= 1
          /\ counter_2[k] >= 1
          /\ TotalEvents(k) >= 3

\* C6: the normalised rate of a key is (sum of the bucket counts x 60) /
\* (sum of the durations) / population, for both buckets with the same
\* denominators.
C6_NormalisedRate ==
    pc = "normalised" =>
        /\ DOMAIN var_exist = SeenKeys
        /\ DOMAIN var_nt_exist = SeenKeys
        /\ \A k \in SeenKeys :
              /\ var_exist[k] = Rat(TotalWith(k) * 60, TotalDuration(k) * population_[k])
              /\ var_nt_exist[k] =
                    Rat((TotalEvents(k) - TotalWith(k)) * 60, TotalDuration(k) * population_[k])

\* C6 witness: d1 = 30, c1 = 2, d2 = 30, c2 = 4, population 1000: rate 0.006.
C6_Witness ==
    /\ pc = "normalised"
    /\ Len(seen) = 2
    /\ Matched = {1, 2}
    /\ KeyOf(1) = KeyOf(2)
    /\ MetaOf(1).end - MetaOf(1).start = 30
    /\ MetaOf(2).end - MetaOf(2).start = 30
    /\ seen[1].events = 2 /\ seen[1].with = 0
    /\ seen[2].events = 4 /\ seen[2].with = 0
    /\ population_[KeyOf(1)] = 1000
    /\ var_nt_exist[KeyOf(1)] = Rat(6, 1000)
    /\ var_exist[KeyOf(1)] = <<0, 1>>

\* C7: the population retained per key is the country population of the
\* segment's mapping row.
C7_CountryPopulation ==
    \A n \in Matched : population_[KeyOf(n)] = MetaOf(n).population_country

\* -------------------------------------- calculate_speed_of_crossing claims

RECURSIVE RetainedOfKey(_, _)
\* The speeds of at most 1.2 of the first n logged segments that map to key k.
RetainedOfKey(k, n) ==
    IF n = 0 THEN <<>>
    ELSE RetainedOfKey(k, n - 1)
         \o (IF n \in Matched /\ KeyOf(n) = k THEN seen[n].retained ELSE <<>>)

\* The entries of all lists of speed_dict.
AllSpeeds == UNION {{speed_dict[k][i] : i \in DOMAIN speed_dict[k]} : k \in DOMAIN speed_dict}

\* The number of entries of all lists of speed_dict.
SpeedCount == SumOver([k \in DOMAIN speed_dict |-> Len(speed_dict[k])], DOMAIN speed_dict)

\* The logged speeds of at most 1.2.
LoggedSpeeds ==
    UNION {{seen[n].retained[m] : m \in DOMAIN seen[n].retained} : n \in DOMAIN seen}

\* C9: no list of the returned mapping holds a speed above 1.2; a speed of
\* exactly 1.2 is kept.
C9_NoSpeedAboveLimit ==
    pc \in {"speed", "returned"} =>
        /\ \A v \in AllSpeeds : v[1] * 5 <= 6 * v[2]
        /\ <<6, 5>> \in LoggedSpeeds => <<6, 5>> \in AllSpeeds

\* C9 witness: a speed of exactly 1.2 is in a list, and an event of a segment
\* with a mapping match was dropped for being faster.
C9_Witness ==
    /\ pc = "returned"
    /\ <<6, 5>> \in AllSpeeds
    /\ SumOver([n \in Matched |-> seen[n].events], Matched) > SpeedCount

\* C10: the speed of a crossing event is (max - min X-center) / (mean track
\* height / reference height) / time-to-cross / 100, and the retained speeds
\* are appended to the list of the segment's key and to no other.
C10_SpeedFormulaAndKey ==
    pc \in {"speed", "returned"} =>
        /\ DOMAIN speed_dict = {k \in SeenKeys : RetainedOfKey(k, Len(seen)) # <<>>}
        /\ \A k \in DOMAIN speed_dict : speed_dict[k] = RetainedOfKey(k, Len(seen))

\* C10 witness: two keys hold speeds, one of them the speeds of two events,
\* the other a speed below 1.2.
C10_Witness ==
    /\ pc = "returned"
    /\ Cardinality(DOMAIN speed_dict) = 2
    /\ \E k \in DOMAIN speed_dict : Len(speed_dict[k]) = 2
    /\ \E k \in DOMAIN speed_dict : speed_dict[k][1] # <<6, 5>>

\* ------------------------------------------------------- traffic_signs claims

\* The logged segments with a mapping match that the running function has
\* iterated over.
Folded == {n \in Matched : n <= pos}

\* C11: after the segments of a key are folded in, traffic_signs holds for the
\* key (sum of the instrument counts x 60) / (sum of the durations), the
\* duration-weighted mean of the per-segment rates; nothing is raised.
C11_DurationWeightedMean ==
    pc \in {"signs", "returned", "raised"} =>
        /\ ~raised
        /\ \A k \in {KeyOf(n) : n \in Folded} :
              /\ k \in DOMAIN info
              /\ info[k] =
                    Rat(60 * SumOver([n \in Folded |-> seen[n].signs],
                                     {n \in Folded : KeyOf(n) = k}),
                        SumOver([n \in Folded |-> MetaOf(n).end - MetaOf(n).start],
                                {n \in Folded : KeyOf(n) = k}))

\* ------------------------------------------------- time_to_start_cross claims

\* Stable runs in seconds: n / (fps / 10).
RunSeconds(runs, fps) == [i \in DOMAIN runs |-> Rat(runs[i] * 10, fps)]

RECURSIVE LatenciesOfKey(_, _, _)
\* The latencies of the stable runs logged in field f of the first n logged
\* segments that map to key k, in the order of the segments.
LatenciesOfKey(k, n, f) ==
    IF n = 0 THEN <<>>
    ELSE LET result == find_values_with_video_id(df_mapping, seen[n].name)
         IN  LatenciesOfKey(k, n - 1, f)
             \o (IF result # None /\ AggKey(result.city, result.state, result.time_of_day) = k
                 THEN RunSeconds(seen[n][f], result.fps) ELSE <<>>)

\* C12: every person track that shows 3 consecutive stable strides (position
\* 10 rows ahead within 10% of the mean track height) followed by a stride
\* outside the band has a latency in the list of its key, whether it starts
\* left of 0.5 or not.
C12_EitherDirectionRecorded ==
    pc \in {"latency", "returned"} =>
        \A k \in SeenKeys :
            LatenciesOfKey(k, Len(seen), "runs") # <<>> =>
                /\ k \in DOMAIN time_dict
                /\ time_dict[k] = LatenciesOfKey(k, Len(seen), "runs")

\* C13: the scan of a track ends at the first stride that breaks the band
\* after 3 consecutive stable ones, and the latency appended is n / (fps / 10)
\* with n the stable strides in a row up to that break, a break before the
\* third having reset the count. (Stable as the scan tests it: the strides
\* of a track that starts at or right of 0.5 never pass its test.)
C13_LatencyIsStableRun ==
    pc \in {"latency", "returned"} =>
        /\ DOMAIN time_dict = {k \in SeenKeys : LatenciesOfKey(k, Len(seen), "runs_left") # <<>>}
        /\ \A k \in DOMAIN time_dict :
              time_dict[k] = LatenciesOfKey(k, Len(seen), "runs_left")

\* C13 witness: a key of 10 fps holds the latencies of two segments, three
\* values in all, among them 4 seconds (4 stable strides before the break)
\* and 3 seconds.
C13_Witness ==
    /\ pc = "returned"
    /\ \E k \in DOMAIN time_dict :
          /\ Cardinality({n \in Matched : KeyOf(n) = k /\ seen[n].runs_left # <<>>}) = 2
          /\ Len(time_dict[k]) = 3
          /\ \E i \in DOMAIN time_dict[k] : time_dict[k][i] = <<4, 1>>
          /\ \E i \in DOMAIN time_dict[k] : time_dict[k][i] = <<3, 1>>

\* C14: a track that never has 3 consecutive stable strides contributes no
\* value: the list of a key is no longer than the number of person tracks of
\* its segments that have 3 stable strides in a row, and no list exists for
\* a key without such a track.
C14_NoValueWithoutThree ==
    pc \in {"latency", "returned"} =>
        /\ DOMAIN time_dict \subseteq SeenKeys
        /\ \A k \in DOMAIN time_dict :
              Len(time_dict[k]) <=
                  SumOver([n \in Matched |-> seen[n].reach3], {n \in Matched : KeyOf(n) = k})

\* C14 witness: of two segments of a key one has no track with 3 stable
\* strides in a row, the other has one, and the list of the key has one value.
C14_Witness ==
    /\ pc = "returned"
    /\ \E k \in DOMAIN time_dict :
          /\ Len(time_dict[k]) = 1
          /\ \E n \in Matched, m \in Matched :
                /\ KeyOf(n) = k /\ KeyOf(m) = k
                /\ seen[n].reach3 = 0
                /\ seen[m].reach3 = 1

\* C15: a latency is recorded only for identities of the segment's
\* crossing-event set (the ids pedestrian_crossing returned).
C15_OnlyCrossingIdentities ==
    \A n \in Matched : seen[n].recorded \subseteq seen[n].ids

\* --------------------------------------------- pedestrian_cross_per_city claims

\* C16: for every key the returned value is the sum of the crossing counts of
\* the segments whose lookup maps to the key, whatever their video, and the
\* returned values add up to the counts of all segments with a mapping match.
C16_SumPerKey ==
    pc \in {"city", "returned"} =>
        /\ DOMAIN final = SeenKeys
        /\ \A k \in SeenKeys : final[k] = TotalEvents(k)
        /\ SumOver(final, DOMAIN final) = SumOver([n \in Matched |-> seen[n].events], Matched)

\* C16 witness: two segments of different videos (a and e) feed one key,
\* both with crossings, three or more in all.
C16_Witness ==
    /\ pc = "returned"
    /\ Len(seen) = 2
    /\ Matched = {1, 2}
    /\ KeyOf(1) = KeyOf(2)
    /\ MetaOf(1).video # MetaOf(2).video
    /\ seen[1].events >= 1
    /\ seen[2].events >= 1
    /\ final[KeyOf(1)] >= 3

\* ------------------------------------------------------ claims on the averages

\* C17: the averages have exactly the keys of the per-event lists, each value
\* is sum / length of the retained values of its key, and no list is empty
\* (no division by zero).
C17_MeanPerKey ==
    /\ ~raised
    /\ \A k \in DOMAIN speed_dict : speed_dict[k] # <<>>
    /\ \A k \in DOMAIN time_dict : time_dict[k] # <<>>
    /\ pc = "avg_speed" =>
          /\ DOMAIN avg_speed = DOMAIN speed_dict
          /\ \A k \in DOMAIN avg_speed :
                RMul(avg_speed[k], Rat(Len(RetainedOfKey(k, Len(seen))), 1))
                    = RSumSeq(RetainedOfKey(k, Len(seen)))
    /\ pc = "avg_time" =>
          /\ DOMAIN avg_time = DOMAIN time_dict
          /\ \A k \in DOMAIN avg_time :
                RMul(avg_time[k], Rat(Len(LatenciesOfKey(k, Len(seen), "runs_left")), 1))
                    = RSumSeq(LatenciesOfKey(k, Len(seen), "runs_left"))

\* C17 witness: the latencies 3 s and 4 s of one key average to 3.5 s.
C17_Witness ==
    /\ pc = "avg_time"
    /\ \E k \in DOMAIN avg_time :
          /\ Len(time_dict[k]) = 2
          /\ <<3, 1>> \in {time_dict[k][i] : i \in DOMAIN time_dict[k]}
          /\ <<4, 1>> \in {time_dict[k][i] : i \in DOMAIN time_dict[k]}
          /\ avg_time[k] = <<7, 2>>

\* ------------------------------------------------------------- script claims

\* The field of the script each positional read of a presentation function is
\* said to obtain.
Obtains(fn) ==
    CASE fn = "plot_crossing_with_traffic_light" -> <<"with_trf_light">>
      [] fn = "plot_crossing_without_traffic_light" -> <<"without_trf_light">>
      [] fn = "plot_crossing_with_traffic_light_norm" -> <<"with_trf_light_norm">>
      [] fn = "plot_crossing_without_traffic_light_norm" -> <<"without_trf_light_norm">>
      [] fn = "scatter_with_and_without_traffic_light_norm" ->
             <<"with_trf_light_norm", "without_trf_light_norm">>
      [] fn = "traffic_mortality_vs_crossing_event_wt_traffic_light" -> <<"without_trf_light">>

Loaded == log # <<>> /\ log[1] = "load"

\* C18: a snapshot that is saved and loaded again gives every one of the 21
\* names of the script the value it had before the save (same order written
\* and read), and the reads at indices 12, 13, 14, 15 and -8 obtain the with,
\* without, normalised with, normalised without and without mappings.
C18_SnapshotRoundTrip ==
    /\ Len(DumpOrder) = 21
    /\ LoadOrder = DumpOrder
    /\ Loaded => \A f \in DOMAIN main : main[f] = before_save[f]
    /\ pickle_file # <<>> =>
           \A n \in DOMAIN shown :
               shown[n].got = [j \in DOMAIN Obtains(shown[n].fn) |->
                                  before_save[Obtains(shown[n].fn)[j]]]

\* A run that loaded a snapshot whose with and without mappings differ, plain
\* and normalised, as do its two averages, and made all six reads.
C18_Witness ==
    /\ Loaded
    /\ pc = "exit"
    /\ Len(shown) = Len(PlotOrder) + 1
    /\ main = before_save
    /\ main.with_trf_light # main.without_trf_light
    /\ main.with_trf_light_norm # main.without_trf_light_norm
    /\ main.avg_time # main.avg_speed
    /\ main.avg_time # <<>>
    /\ main.avg_speed # <<>>

\* The names the script binds after its loop (lines 2838-2847).
AggregateNames ==
    { "pedestrian_cross_city", "with_trf_light", "without_trf_light", "with_trf_light_norm",
      "without_trf_light_norm", "traffic_sign_city", "speed_values", "time_values",
      "avg_time", "avg_speed" }

Times(event) == Cardinality({n \in DOMAIN log : log[n] = event})

\* C19: a run that finds a snapshot takes every name from it, runs no
\* detection or aggregation and does not write the snapshot; a run that finds
\* none computes every aggregate, writes the snapshot exactly once, and
\* writes it before any presentation function reads it.
C19_LoadOrComputeOnce ==
    /\ Loaded =>
           /\ Times("read_csv_files") + Times("analyse") + Times("aggregate") = 0
           /\ Times("dump") = 0
           /\ main = [f \in DOMAIN main |->
                          pickle_file[CHOOSE i \in DOMAIN LoadOrder : LoadOrder[i] = f]]
           /\ pickle_file = [i \in DOMAIN DumpOrder |-> before_save[DumpOrder[i]]]
    /\ ~Loaded =>
           /\ \A n \in DOMAIN log :
                  log[n] = "read" => \E m \in 1..(n - 1) : log[m] = "dump"
           /\ Times("dump") <= 1
           /\ Times("aggregate") <= 1
           /\ pc \in {"exit", "aborted"} =>
                  /\ Times("dump") = 1
                  /\ Times("aggregate") = 1
                  /\ \A f \in AggregateNames : main[f] # None

\* The same, for the runs that end without an exception.
C19_HoldsWhenNothingRaises ==
    /\ Loaded =>
           /\ Times("read_csv_files") + Times("analyse") + Times("aggregate") = 0
           /\ Times("dump") = 0
           /\ pickle_file = [i \in DOMAIN DumpOrder |-> before_save[DumpOrder[i]]]
    /\ ~Loaded =>
           /\ \A n \in DOMAIN log :
                  log[n] = "read" => \E m \in 1..(n - 1) : log[m] = "dump"
           /\ Times("dump") <= 1
           /\ pc = "exit" =>
                  /\ Times("dump") = 1
                  /\ Times("aggregate") = 1
                  /\ \A f \in AggregateNames : main[f] # None

\* ---------------------------------------------------------------- key claims

\* The (city, state, condition) of the segments the mapping lists, the
\* condition as the key spells it.
Originals ==
    {<<r.city, r.state, <<ToString(r.time_of_day)>>>> :
        r \in {find_values_with_video_id(df_mapping, dfs[n].name) : n \in DOMAIN dfs} \ {None}}

NoSeparator(name) == \A i \in DOMAIN name : name[i] # "_"

\* The keys the per-city mappings of the run hold.
StoredKeys ==
    DOMAIN counter_1 \cup DOMAIN counter_2 \cup DOMAIN time_ \cup DOMAIN population_

\* C20: a key composed of a city and a state without "_" and a condition
\* splits on "_" into exactly that city, state and condition, and every key
\* stored in a per-city mapping splits into exactly three pieces, so that the
\* unpacking of the presentation functions never fails.
C20_KeyRoundTrip ==
    /\ \A o \in Originals :
           NoSeparator(o[1]) /\ NoSeparator(o[2]) =>
               Split(o[1] \o <<"_">> \o o[2] \o <<"_">> \o o[3]) = o
    /\ \A n \in DOMAIN seen :
           <<seen[n].city, seen[n].state, seen[n].condition>> \in Originals
    /\ \A k \in StoredKeys : Len(Split(k)) = 3
    /\ ~raised

\* The same for the mappings whose names hold no separator.
C20_HoldsWithoutSeparator ==
    (\A o \in Originals : NoSeparator(o[1]) /\ NoSeparator(o[2])) =>
        /\ \A o \in Originals : Split(o[1] \o <<"_">> \o o[2] \o <<"_">> \o o[3]) = o
        /\ \A n \in DOMAIN seen :
               /\ <<seen[n].city, seen[n].state, seen[n].condition>> \in Originals
               /\ seen[n].key = AggKey(seen[n].city, seen[n].state,
                                       IF seen[n].condition = <<"0">> THEN 0 ELSE 1)
        /\ \A k \in StoredKeys : Len(Split(k)) = 3
        /\ ~raised
        /\ pc = "drawn" => Len(seen) = Cardinality(DOMAIN counter_2)

\* ------------------------------------------------------------ lookup claims

\* The places <<row, video, position>> of the mapping table at which the
\* video is id and the start offset is start.
Places(id, start) ==
    {p \in UNION {UNION {{<<rw, vi, ps>> : ps \in 1..Len(df_mapping[rw].start_time[vi])} :
                            vi \in DOMAIN df_mapping[rw].videos} :
                     rw \in DOMAIN df_mapping} :
        /\ df_mapping[p[1]].videos[p[2]] = id
        /\ df_mapping[p[1]].start_time[p[2]][p[3]] = start}

\* p comes before q in the order of rows, then videos, then positions.
Before(p, q) ==
    \/ p[1] < q[1]
    \/ p[1] = q[1] /\ p[2] < q[2]
    \/ p[1] = q[1] /\ p[2] = q[2] /\ p[3] <= q[3]

FirstPlace(id, start) ==
    CHOOSE p \in Places(id, start) : \A q \in Places(id, start) : Before(p, q)

\* The video id and start offset of the key looked up: what stands before
\* and after its last "_".
KeyId == SubSeq(key, 1, Len(key) - 2)

KeyStart == IntOf(key[Len(key)])

\* C21: a key resolves to at most one segment: the key is split at its last
\* "_"; without a matching video/start pair there is no result; otherwise the
\* result is the first match in the order of rows (then videos, then list
\* positions), its end offset and time of day stand at the position of the
\* matched start offset in the lists of the matched video, and its frame
\* rate is that video's.
C21_FirstMatchSamePosition ==
    pc = "found" =>
        IF Places(KeyId, KeyStart) = {} THEN lookup = None
        ELSE LET p == FirstPlace(KeyId, KeyStart)
                 row == df_mapping[p[1]]
             IN  /\ lookup # None
                 /\ lookup.video = KeyId
                 /\ lookup.start = KeyStart
                 /\ lookup.end = row.end_time[p[2]][p[3]]
                 /\ lookup.time_of_day = row.time_of_day[p[2]][p[3]]
                 /\ lookup.fps = row.fps_list[p[2]]
                 /\ lookup.city = row.city
                 /\ lookup.avg_height = row.avg_height

\* A key whose pair stands in both rows of the table, in the first of them
\* at the second list position of the second video.
C21_Witness ==
    /\ pc = "found"
    /\ Cardinality({p[1] : p \in Places(KeyId, KeyStart)}) = 2
    /\ FirstPlace(KeyId, KeyStart) = <<1, 2, 2>>
    /\ lookup # None
    /\ lookup.end = 50
    /\ lookup.time_of_day = 1
    /\ lookup.fps = 60

\* The row of the mapping table that lists the video of a csv file.
RowOf(name) ==
    df_mapping[CHOOSE n \in DOMAIN df_mapping :
                  \E i \in DOMAIN df_mapping[n].videos : df_mapping[n].videos[i] = RSplit(name)[1]]

\* The csv files of the run whose mapping row has no state.
NullState == {n \in DOMAIN dfs : RowOf(dfs[n].name).state = <<>>}

\* C22: the lookup of a segment whose mapping row has a null state returns
\* the state "unknown" (and a result, no error), and the key under which the
\* aggregation stores the segment is "<city>_unknown_<condition>".
C22_NullStateIsUnknown ==
    pc \in {"plot", "drawn", "raised"} =>
        \A n \in NullState :
            LET r == find_values_with_video_id(df_mapping, dfs[n].name)
                k == RowOf(dfs[n].name).city \o <<"_", "unknown", "_">>
                         \o <<ToString(r.time_of_day)>>
            IN  /\ r # None
                /\ r.state = <<"unknown">>
                /\ r.city = RowOf(dfs[n].name).city
                /\ k \in DOMAIN counter_1 \cap DOMAIN counter_2
                /\ k \in DOMAIN time_ \cap DOMAIN population_
                /\ AggKey(r.city, r.state, r.time_of_day) = k

\* A run with a segment of a row without a state and one of a row with a
\* state: one key with "unknown" holding a crossing, one key without.
C22_Witness ==
    /\ pc = "plot"
    /\ Len(dfs) = 2
    /\ Cardinality(NullState) = 1
    /\ \E k \in DOMAIN counter_2 : k = <<"Delft", "_", "unknown", "_", "0">> /\ counter_2[k] >= 1
    /\ \E k \in DOMAIN counter_2 : k = <<"Austin", "_", "Texas", "_", "0">>

\* ----------------------------------------------- time_to_cross, every track

\* C23: with a mapping match, time_to_cross returns an entry for every
\* identity it is passed, in the order passed: the walk from the extreme
\* that comes first always reaches the other one; every entry is at least
\* 1 / fps.
C23_EveryIdentityTimed ==
    (pc = "timed" /\ Meta # None) =>
        /\ [n \in DOMAIN data |-> data[n][1]] = crossed[2]
        /\ \A n \in DOMAIN data : ~RGreater(Rat(1, Meta.fps), data[n][2])

\* Two identities passed at 30 frames per second: one with a single row
\* (1/30 s), one that goes right to left over two rows (2/30 s).
C23_Witness ==
    /\ pc = "timed"
    /\ Meta # None
    /\ Len(crossed[2]) = 2
    /\ Len(data) = 2
    /\ data[1][2] = Rat(1, 30)
    /\ Len(RowsOfId(dataframe, data[1][1])) = 1
    /\ data[2][2] = Rat(2, 30)
    /\ RowsOfId(dataframe, data[2][1])[1].X_center > RowsOfId(dataframe, data[2][1])[2].X_center

\* ------------------------------------------- equipment in range, key sets

\* C24: a crossing event counts as with equipment exactly when some row of
\* the segment between the first and the last row of its track (both
\* included, rows of any object) has class 9 or 11; it counts as without
\* otherwise.
C24_WithIffInstrumentInRange ==
    pc \in {"equip", "normalised"} =>
        \A k \in SeenKeys :
            /\ counter_1[k] = TotalWith(k)
            /\ counter_2[k] = TotalEvents(k) - TotalWith(k)

\* Two segments of one key with one crossing each: one has an instrument of
\* another identity inside the range of the track, the other has none.
C24_Witness ==
    /\ pc = "equip"
    /\ Len(seen) = 2
    /\ Matched = {1, 2}
    /\ KeyOf(1) = KeyOf(2)
    /\ seen[1].events = 1 /\ seen[1].with = 1
    /\ seen[2].events = 1 /\ seen[2].with = 0
    /\ counter_1[KeyOf(1)] = 1
    /\ counter_2[KeyOf(1)] = 1

\* C27: whatever segments crossing_event_wt_traffic_equipment has processed,
\* the with-count, the without-count, the cumulative duration and the
\* population mappings it returns have the same keys (those of the matched
\* segments), so nomalised_crossing_wth_traffic_equipment finds every key it
\* looks up and returns rates for these keys.
C27_SameKeySets ==
    /\ pc \in {"equip", "normalised"} =>
          /\ DOMAIN time_ = SeenKeys
          /\ DOMAIN counter_1 = DOMAIN time_
          /\ DOMAIN counter_2 = DOMAIN time_
          /\ DOMAIN population_ = DOMAIN time_
    /\ pc = "normalised" =>
          /\ DOMAIN var_exist = DOMAIN time_
          /\ DOMAIN var_nt_exist = DOMAIN time_

\* Two segments of different keys have been normalised, one of them without
\* a crossing event: its key stands in all four mappings with counts 0.
C27_Witness ==
    /\ pc = "normalised"
    /\ Len(seen) = 2
    /\ Matched = {1, 2}
    /\ KeyOf(1) # KeyOf(2)
    /\ seen[1].events = 0
    /\ seen[2].events = 2 /\ seen[2].with = 0
    /\ counter_1[KeyOf(1)] = 0 /\ counter_2[KeyOf(1)] = 0
    /\ counter_1[KeyOf(2)] = 0 /\ counter_2[KeyOf(2)] = 2
    /\ var_exist[KeyOf(2)] = Rat(0, 1)

\* ------------------------------------------- traffic_signs, further claims

\* The logged segments traffic_signs has iterated over so far.
Iterated == {n \in Matched : n <= pos}

\* C25: traffic_signs skips a segment without an identity of class 9 or 11:
\* such a segment adds no entry to the mapping and changes no value of it, so
\* every key of the mapping has a segment with an instrument, and a mapping
\* fed by segments without instruments only is empty.
C25_NoInstrumentsSkipped ==
    pc \in {"signs", "returned"} =>
        \A k \in DOMAIN info :
            \E n \in Iterated : KeyOf(n) = k /\ seen[n].instrument_ids > 0

\* dfs as the dict it is: equal whatever the order of its items.
AsDict(d) == {d[n] : n \in DOMAIN d}

\* C26: the mapping traffic_signs returns depends on its arguments alone:
\* two invocations with equal mapping table and equal detection tables
\* return equal mappings and neither raises, whatever module-level state
\* (such as the crossing count of the segment analysed last) they run with.
C26_FunctionOfArguments ==
    \A i \in DOMAIN seen, j \in DOMAIN seen :
        AsDict(seen[i].dfs) = AsDict(seen[j].dfs) =>
            /\ ~seen[i].raised
            /\ ~seen[j].raised
            /\ seen[i].info = seen[j].info

\* ---------------------------------------------- the aggregates of one run

\* Every csv file of the run has a mapping match.
AllMatched == \A n \in DOMAIN dfs : find_values_with_video_id(df_mapping, dfs[n].name) # None

\* C28: in a run where every segment has a mapping match, the with-count
\* and the without-count of crossing_event_wt_traffic_equipment have the
\* keys of the totals of pedestrian_cross_per_city, and for every key the
\* two counts add up to the total.
C28_BucketsSumToCityTotal ==
    (/\ pc \in {"dump", "plots", "exit"}
     /\ AllMatched
     /\ main.with_trf_light # None
     /\ main.without_trf_light # None
     /\ main.pedestrian_cross_city # None) =>
        /\ DOMAIN main.with_trf_light = DOMAIN main.pedestrian_cross_city
        /\ DOMAIN main.without_trf_light = DOMAIN main.pedestrian_cross_city
        /\ \A k \in DOMAIN main.pedestrian_cross_city :
              main.with_trf_light[k] + main.without_trf_light[k] = main.pedestrian_cross_city[k]

\* A run over two segments of one key, one person crossing in sight of a
\* traffic light in the first and two crossing without one in the second:
\* 1 with, 2 without, 3 in total.
C28_Witness ==
    /\ pc = "dump"
    /\ Len(dfs) = 2
    /\ AllMatched
    /\ dfs[1].value = CrowdTable(1, TRUE)
    /\ dfs[2].value = CrowdTable(2, FALSE)
    /\ \E k \in DOMAIN main.pedestrian_cross_city :
          /\ DOMAIN main.pedestrian_cross_city = {k}
          /\ main.with_trf_light[k] = 1
          /\ main.without_trf_light[k] = 2
          /\ main.pedestrian_cross_city[k] = 3

\* dfs without its n-th csv file.
Without(n) == SubSeq(dfs, 1, n - 1) \o SubSeq(dfs, n + 1, Len(dfs))

\* The csv files of the run with a mapping match and no crossing event,
\* once the aggregations have been computed from them.
ZeroEvent ==
    IF main.with_trf_light = None THEN {}
    ELSE {n \in DOMAIN dfs :
            /\ find_values_with_video_id(df_mapping, dfs[n].name) # None
            /\ dfs[n].name \in DOMAIN main.data
            /\ main.data[dfs[n].name] = <<>>}

\* The key and the duration of the n-th csv file.
KeyOfFile(n) ==
    LET r == find_values_with_video_id(df_mapping, dfs[n].name)
    IN  AggKey(r.city, r.state, r.time_of_day)

DurationOfFile(n) ==
    LET r == find_values_with_video_id(df_mapping, dfs[n].name)
    IN  r.end - r.start

\* What the aggregations return for the csv files d of the run.
EquipOf(d) == crossing_event_wt_traffic_equipment(df_mapping, d, main.data)

NormOf(d) == nomalised_crossing_wth_traffic_equipment(df_mapping, d, main.data)

SpeedsOf(d) == calculate_speed_of_crossing(df_mapping, d, main.data)

\* The effect of the n-th csv file, a matched one without a crossing event,
\* on what crossing_event_wt_traffic_equipment and
\* calculate_speed_of_crossing return: its duration is added to the
\* cumulative duration of its key, no other duration changes, no count
\* changes (a key the segment creates has counts 0), and the lists of speeds
\* are those of the other segments.
ZeroEventFrame(n) ==
    LET k == KeyOfFile(n)
        full == EquipOf(dfs)
        rest == EquipOf(Without(n))
    IN  /\ k \in DOMAIN full.time_
        /\ full.time_[k] = GetOr0(rest.time_, k) + DurationOfFile(n)
        /\ DOMAIN full.time_ = DOMAIN rest.time_ \cup {k}
        /\ \A x \in DOMAIN rest.time_ \ {k} : full.time_[x] = rest.time_[x]
        /\ DOMAIN full.counter_1 = DOMAIN full.time_
        /\ DOMAIN full.counter_2 = DOMAIN full.time_
        /\ \A x \in DOMAIN full.time_ :
              /\ full.counter_1[x] = GetOr0(rest.counter_1, x)
              /\ full.counter_2[x] = GetOr0(rest.counter_2, x)
        /\ SpeedsOf(dfs) = SpeedsOf(Without(n))

\* C29 as stated: a matched segment without a crossing event adds its
\* duration to the cumulative duration of its key and leaves the counts of
\* every key unchanged, so it lowers the normalised rate of a key that had
\* one (the rate with or the rate without equipment);
\* calculate_speed_of_crossing skips the segment.
C29_ZeroEventLowersRate ==
    \A n \in ZeroEvent :
        /\ ZeroEventFrame(n)
        /\ KeyOfFile(n) \in DOMAIN EquipOf(Without(n)).time_ =>
              \/ RGreater(NormOf(Without(n)).var_exist[KeyOfFile(n)],
                          NormOf(dfs).var_exist[KeyOfFile(n)])
              \/ RGreater(NormOf(Without(n)).var_nt_exist[KeyOfFile(n)],
                          NormOf(dfs).var_nt_exist[KeyOfFile(n)])

\* C29, amended: a matched segment without a crossing event adds its
\* duration to the cumulative duration of its key and leaves the counts of
\* every key unchanged; neither normalised rate of a key that had one rises,
\* and a rate falls exactly when its count is positive (a rate of 0 stays
\* 0); calculate_speed_of_crossing skips the segment.
C29_ZeroEventDilutesRate ==
    \A n \in ZeroEvent :
        /\ ZeroEventFrame(n)
        /\ KeyOfFile(n) \in DOMAIN EquipOf(Without(n)).time_ =>
              LET k == KeyOfFile(n)
                  before == NormOf(Without(n))
                  after == NormOf(dfs)
              IN  /\ ~RGreater(after.var_exist[k], before.var_exist[k])
                  /\ ~RGreater(after.var_nt_exist[k], before.var_nt_exist[k])
                  /\ RGreater(before.var_exist[k], after.var_exist[k])
                        <=> EquipOf(dfs).counter_1[k] > 0
                  /\ RGreater(before.var_nt_exist[k], after.var_nt_exist[k])
                        <=> EquipOf(dfs).counter_2[k] > 0

\* A run over two segments of one key: a stop sign alone in the first, one
\* person crossing in sight of a traffic light in the second. The first adds
\* its 30 s: the rate with equipment is half of what the second alone gives,
\* the rate without stays 0, and the speeds are those of the second.
C29_Witness ==
    /\ pc = "dump"
    /\ Len(dfs) = 2
    /\ ZeroEvent = {1}
    /\ dfs[2].value = CrowdTable(1, TRUE)
    /\ KeyOfFile(1) = KeyOfFile(2)
    /\ main.with_trf_light = EquipOf(dfs).counter_1
    /\ main.with_trf_light[KeyOfFile(1)] = 1
    /\ main.without_trf_light[KeyOfFile(1)] = 0
    /\ EquipOf(dfs).time_[KeyOfFile(1)] = 60
    /\ EquipOf(Without(1)).time_[KeyOfFile(1)] = 30
    /\ main.with_trf_light_norm = NormOf(dfs).var_exist
    /\ RMul(main.with_trf_light_norm[KeyOfFile(1)], <<2, 1>>)
          = NormOf(Without(1)).var_exist[KeyOfFile(1)]
    /\ main.speed_values = SpeedsOf(Without(1))
    /\ main.speed_values # <<>>

\* ------------------------------------------- time_to_start_cross, bounds

\* The logged segments of key k that recorded a stride count.
Recording(k) == {n \in Matched : KeyOf(n) = k /\ seen[n].counts # {}}

\* C30: every stride count time_to_start_cross records for a track is 3 or
\* more, so every latency of a returned list is at least 3 / (fps / 10)
\* seconds for the frame rate of a segment of its key that recorded one; a
\* track that stays stable until its rows run out records nothing: a segment
\* records no more identities than it has persons whose track breaks the
\* band after three stable strides.
C30_AtLeastThreeStrides ==
    /\ \A n \in DOMAIN seen :
          /\ \A c \in seen[n].counts : c >= 3
          /\ Cardinality(seen[n].recorded) <= Len(seen[n].runs)
    /\ \A k \in DOMAIN time_dict :
          \A i \in DOMAIN time_dict[k] :
              \E n \in Recording(k) :
                  ~RGreater(Rat(3 * 10, MetaOf(n).fps), time_dict[k][i])

\* Two segments of one key of 10 fps have been scanned: the person of the
\* first breaks the band after four stable strides; the person of the second
\* has three stable strides in a row and no break after them, up to the last
\* row, and is not recorded. The list of the key is [4.0].
C30_Witness ==
    /\ pc = "returned"
    /\ Len(seen) = 2
    /\ Matched = {1, 2}
    /\ KeyOf(1) = KeyOf(2)
    /\ MetaOf(1).fps = 10
    /\ seen[1].counts = {4}
    /\ seen[2].reach3 = 1
    /\ seen[2].runs = <<>>
    /\ seen[2].recorded = {}
    /\ time_dict[KeyOf(1)] = << <<4, 1>> >>

====
